---- MODULE Spec2Model ----
(***************************************************************************)
(* felbot: linking of a Telegram account to a Discord account through the  *)
(* Discord OAuth flow (src/src/api/oauth.rs), the store behind it          *)
(* (src/src/database/models) and the role verification job                 *)
(* (src/src/cron.rs) that removes the links of users without an allowed    *)
(* role.                                                                   *)
(*                                                                         *)
(* Every database statement, every send on the action channel and every   *)
(* call to Discord is one step: the handlers run on a multi-threaded       *)
(* runtime and share only the database and the channel.                    *)
(***************************************************************************)
EXTENDS Integers, Sequences, FiniteSets, TLC

VARIABLES
    user_links,      \* table user_links: rows [id, discord_id, telegram_id, added_to_group_at,
                     \* last_subscription_check]
    oauth_states,    \* table oauth_states: rows [state_token, telegram_id, expires_at]
    now,             \* NOW() of the database
    next_token,      \* the next value uuid::Uuid::new_v4() returns
    next_link_id,    \* the next row id of user_links
    telegram_queue,  \* the unbounded channel of TelegramAction
    receiver_open,   \* the receiver half of the channel is alive
    start,           \* the oauth_start request in flight
    cb,              \* the oauth_callback requests in flight
    cron,            \* the role verification runners
    allowed_roles,   \* table allowed_roles: per allowed guild, its role ids
    consumed,        \* history: per token, the callbacks that got its pending state
    dispatcher,      \* process_telegram_actions: the action in hand, the actions handled
    cron_trigger,    \* the channel of CronAction and the response to the last trigger
    permissions      \* tables allowed_channels and allowed_roles, as the admin commands see them

vars == <<user_links, oauth_states, now, next_token, next_link_id,
          telegram_queue, receiver_open, start, cb, cron, allowed_roles, consumed,
          dispatcher, cron_trigger, permissions>>

----------------------------------------------------------------------------
(* Bounds of the model.                                                    *)

\* start calls that reach Uuid::new_v4()
MaxTokens == 2
\* ticks of the database clock
MaxTime == 2
\* actions sent to the channel
MaxQueue == 4
\* CronAction::Execute signals waiting in the channel
MaxSignals == 2

\* telegram_id values of /oauth/start requests (i64; 0 fails the validation)
TelegramIds == {0, 1, 2}
\* the "id" strings of the Discord user payload, as sequences of characters
DiscordUserIds == {<<"1">>, <<"2">>, <<"x">>}
\* the oauth_callback requests that can be in flight together
Callbacks == {"c1", "c2"}
\* the runners of the verification job: the scheduler and the runner of the
\* manual triggers
Runners == {"timer", "manual"}
\* Discord guilds and roles
Guilds == {1, 2}
Roles == {10, 20}

\* the role ids a member of a guild can hold: allowed roles and an admin role
MemberRoles == Roles \cup {30}
\* the secret query parameter of a /cron request
Secrets == {"", "guess", "s3cret"}

Tokens == 1..MaxTokens

----------------------------------------------------------------------------
(* ApiError (src/src/api/error.rs) and the results of the handlers.        *)

NoResult == [kind |-> "none", message |-> ""]
Ok == [kind |-> "Ok", message |-> ""]
DiscordApi(m) == [kind |-> "DiscordApi", message |-> m]
Http(m) == [kind |-> "Http", message |-> m]
ForbiddenRequest(m) == [kind |-> "ForbiddenRequest", message |-> m]
Database(m) == [kind |-> "Database", message |-> m]
InternalError(m) == [kind |-> "InternalError", message |-> m]
BadRequest(m) == [kind |-> "BadRequest", message |-> m]

\* a mapping that answers a forbidden request with 403
into_response_forbidden(e) ==
    CASE e.kind = "DiscordApi" -> 502
      [] e.kind = "Http" -> 502
      [] e.kind = "Database" -> 500
      [] e.kind = "ForbiddenRequest" -> 403
      [] e.kind = "BadRequest" -> 400
      [] e.kind = "InternalError" -> 500

\* the status code of the response an error renders as
into_response(e) ==
    CASE e.kind = "DiscordApi" -> 502
      [] e.kind = "Http" -> 502
      [] e.kind = "Database" -> 500
      [] e.kind = "ForbiddenRequest" -> 400
      [] e.kind = "BadRequest" -> 400
      [] e.kind = "InternalError" -> 500

\* the messages of the errors of the OAuth handlers
MsgInvalidTelegramId == "invalid discord id for oauth flow"
MsgTelegramLinked == "Telegram account is already linked to a Discord account"
MsgInvalidState == "Invalid or expired authorization request"
MsgDiscordLinked == "Discord account is already linked to a Telegram account"
MsgInvalidDiscordId == "Invalid discord id"

----------------------------------------------------------------------------
(* The store: src/src/database/models/user_links.rs and oauth_state.rs.    *)

UserLink(id, discord_id, telegram_id) ==
    [id |-> id, discord_id |-> discord_id, telegram_id |-> telegram_id,
     added_to_group_at |-> FALSE, last_subscription_check |-> FALSE]

\* a lookup that misses every row: what the checks of the handlers are
\* compared with
find_no_discord_id(links, discord_id) == {}

find_no_telegram_id(links, telegram_id) == {}

\* SELECT * FROM user_links WHERE discord_id = $1 (the rows found)
find_by_discord_id(links, discord_id) ==
    {l \in links : l.discord_id = discord_id}

\* SELECT * FROM user_links WHERE telegram_id = $1 (the rows found)
find_by_telegram_id(links, telegram_id) ==
    {l \in links : l.telegram_id = telegram_id}

\* a table with the unique constraint on discord_id alone
UniqueDiscordOnly(links, discord_id, telegram_id) ==
    \E l \in links : l.discord_id = discord_id

\* the unique constraints of user_links, on discord_id and on telegram_id
UniqueViolation(links, discord_id, telegram_id) ==
    \E l \in links : l.discord_id = discord_id \/ l.telegram_id = telegram_id

\* INSERT INTO user_links (discord_id, telegram_id): the table afterwards
create_link(links, id, discord_id, telegram_id) ==
    links \cup {UserLink(id, discord_id, telegram_id)}

\* UPDATE user_links SET added_to_group_at = NOW() WHERE id = $1
mark_added_to_group(links, id) ==
    {IF l.id = id THEN [l EXCEPT !.added_to_group_at = TRUE] ELSE l : l \in links}

\* DELETE FROM user_links WHERE discord_id = $1: the rows deleted
delete_by_discord_id(links, discord_id) ==
    {l \in links : l.discord_id = discord_id}

\* the lifetime of a pending state: the default of oauth_states.expires_at
StateTtl == 1

\* INSERT INTO oauth_states (state_token, telegram_id): the table afterwards
OAuthState_create(states, telegram_id, token, t) ==
    states \cup {[state_token |-> token, telegram_id |-> telegram_id,
                  expires_at |-> t + StateTtl]}

\* a DELETE ... RETURNING without the test of expires_at
get_and_delete_any(states, token, t) ==
    {s \in states : s.state_token = token}

\* a SELECT in the place of the DELETE: the table keeps the row
get_and_keep(states, token, t) == states

\* DELETE FROM oauth_states WHERE state_token = $1 AND expires_at > NOW()
\* RETURNING *: the rows returned
get_and_delete(states, token, t) ==
    {s \in states : s.state_token = token /\ s.expires_at > t}

\* ... and the table afterwards
get_and_delete_rest(states, token, t) ==
    states \ get_and_delete(states, token, t)

----------------------------------------------------------------------------
(* Conversions.                                                            *)

Digits == <<"0", "1", "2", "3", "4", "5", "6", "7", "8", "9">>

IsDigit(c) == \E i \in 1..Len(Digits) : Digits[i] = c

DigitValue(c) == (CHOOSE i \in 1..Len(Digits) : Digits[i] = c) - 1

RECURSIVE DecimalValue(_)
DecimalValue(s) ==
    IF s = <<>> THEN 0
    ELSE 10 * DecimalValue(SubSeq(s, 1, Len(s) - 1)) + DigitValue(s[Len(s)])

\* discord_user.id.parse::<i64>() on the id strings of the model (no sign)
parse_i64(s) ==
    IF s # <<>> /\ \A i \in 1..Len(s) : IsDigit(s[i])
    THEN [ok |-> TRUE, value |-> DecimalValue(s)]
    ELSE [ok |-> FALSE, value |-> 0]

\* DiscordService::get_oauth_url: the query of the authorization URL
get_oauth_url(token) ==
    [response_type |-> "code", scope |-> "identify", state |-> token]

----------------------------------------------------------------------------
(* The requests and the jobs.                                              *)

IdleStart ==
    [pc |-> "idle", telegram_id |-> 0, store_access |-> FALSE, location |-> 0,
     result |-> NoResult]

IdleCallback ==
    [pc |-> "idle", state |-> 0, telegram_id |-> 0, discord_id |-> 0,
     link_id |-> 0, invites |-> 0, result |-> NoResult]

\* TelegramAction::InviteUser of oauth_callback
InviteUser(telegram_id) ==
    [type |-> "InviteUser", id |-> telegram_id, group_id |-> 0]

\* the reply of a slash command
Reply(text) == [kind |-> "Reply", message |-> text]

\* the channel of CronAction after main has created it, and no trigger yet
IdleTrigger == [executes |-> 0, receiver_open |-> TRUE, response |-> NoResult]

\* process_telegram_actions before its first recv
IdleDispatcher == [handling |-> <<>>, handled |-> <<>>, calls |-> <<>>]

\* the actions sent so far: handled, in hand, and waiting in the channel
Submitted ==
    [i \in 1..Len(dispatcher.handled) |-> dispatcher.handled[i].action]
        \o dispatcher.handling \o telegram_queue

\* a row of user_links is deleted by a verification transaction still open:
\* a statement that needs the row or its keys waits for that transaction
RowLocked(l) == \E r \in Runners : l.id \in cron[r].tx_deleted

KeyLocked(discord_id, telegram_id) ==
    \E l \in user_links :
        /\ RowLocked(l)
        /\ (l.discord_id = discord_id \/ l.telegram_id = telegram_id)

----------------------------------------------------------------------------
(* GET /oauth/start: oauth_start, src/src/api/oauth.rs.                    *)

\* oauth_start without params.validate()
oauth_start_unvalidated(telegram_id) ==
    /\ start.pc \in {"idle", "done"}
    /\ IF {l \in user_links : l.telegram_id = telegram_id} # {}
       THEN start' = [IdleStart EXCEPT !.pc = "done", !.store_access = TRUE,
                        !.result = ForbiddenRequest(MsgTelegramLinked)]
       ELSE /\ next_token <= MaxTokens
            /\ start' = [IdleStart EXCEPT !.pc = "create", !.telegram_id = telegram_id,
                           !.store_access = TRUE]
    /\ UNCHANGED <<user_links, oauth_states, now, next_token, next_link_id,
                   telegram_queue, receiver_open, cb, cron, allowed_roles,
                   permissions, consumed, dispatcher, cron_trigger>>

\* the validation of the parameters and, for a valid telegram_id, the lookup
\* of an existing link
oauth_start_check(telegram_id) ==
    /\ start.pc \in {"idle", "done"}
    /\ IF telegram_id < 1
       THEN start' = [IdleStart EXCEPT !.pc = "done",
                        !.result = BadRequest(MsgInvalidTelegramId)]
       ELSE IF find_by_telegram_id(user_links, telegram_id) # {}
       THEN start' = [IdleStart EXCEPT !.pc = "done", !.store_access = TRUE,
                        !.result = ForbiddenRequest(MsgTelegramLinked)]
       ELSE /\ next_token <= MaxTokens
            /\ start' = [IdleStart EXCEPT !.pc = "create", !.telegram_id = telegram_id,
                           !.store_access = TRUE]
    /\ UNCHANGED <<user_links, oauth_states, now, next_token, next_link_id,
                   telegram_queue, receiver_open, cb, cron, allowed_roles,
                   permissions, consumed, dispatcher, cron_trigger>>

\* the new token, the pending state and the redirect to Discord
oauth_start_create ==
    /\ start.pc = "create"
    /\ oauth_states' = OAuthState_create(oauth_states, start.telegram_id, next_token, now)
    /\ next_token' = next_token + 1
    /\ start' = [IdleStart EXCEPT !.pc = "done", !.store_access = TRUE,
                       !.result = Ok, !.location = get_oauth_url(next_token).state]
    /\ UNCHANGED <<user_links, now, next_link_id, telegram_queue,
                   receiver_open, cb, cron, allowed_roles, permissions,
                   consumed, dispatcher, cron_trigger>>

----------------------------------------------------------------------------
(* GET /oauth/callback: oauth_callback, src/src/api/oauth.rs.              *)

\* the response is sent and the working data of the request is dropped
Return(c, e) ==
    cb' = [cb EXCEPT ![c] = [IdleCallback EXCEPT !.pc = "done", !.result = e]]

Goto(c, pc) == cb' = [cb EXCEPT ![c].pc = pc]

\* get_oauth_state: the pending state of the token is fetched and deleted
get_oauth_state(c, token) ==
    /\ cb[c].pc \in {"idle", "done"}
    /\ LET found == get_and_delete(oauth_states, token, now) IN
       /\ oauth_states' = get_and_delete_rest(oauth_states, token, now)
       /\ IF found = {}
          THEN /\ cb' = [cb EXCEPT ![c] = [IdleCallback EXCEPT !.pc = "done",
                            !.state = token,
                            !.result = ForbiddenRequest(MsgInvalidState)]]
               /\ UNCHANGED consumed
          ELSE /\ \E s \in found :
                    cb' = [cb EXCEPT ![c] = [IdleCallback EXCEPT
                             !.pc = "get_access_token", !.state = token,
                             !.telegram_id = s.telegram_id]]
               /\ consumed' = [t \in Tokens |->
                                 IF t = token THEN consumed[t] + 1 ELSE consumed[t]]
    /\ UNCHANGED <<user_links, now, next_token, next_link_id, telegram_queue,
                   receiver_open, start, cron, allowed_roles, permissions,
                   dispatcher, cron_trigger>>

\* a token exchange whose transport error is not mapped to ApiError::Http
get_access_token_unmapped(c) ==
    /\ cb[c].pc = "get_access_token"
    /\ \E out \in {"ok", "Http", "DiscordApi"} :
          CASE out = "ok" -> Goto(c, "get_user_info")
            [] out = "Http" -> Return(c, InternalError("token"))
            [] out = "DiscordApi" -> Return(c, DiscordApi("Token exchange failed"))
    /\ UNCHANGED <<user_links, oauth_states, now, next_token, next_link_id,
                   telegram_queue, receiver_open, start, cron, allowed_roles,
                   permissions, consumed, dispatcher, cron_trigger>>

\* discord_service.get_access_token
get_access_token(c) ==
    /\ cb[c].pc = "get_access_token"
    /\ \E out \in {"ok", "Http", "DiscordApi"} :
          CASE out = "ok" -> Goto(c, "get_user_info")
            [] out = "Http" -> Return(c, Http("token"))
            [] out = "DiscordApi" -> Return(c, DiscordApi("Token exchange failed"))
    /\ UNCHANGED <<user_links, oauth_states, now, next_token, next_link_id,
                   telegram_queue, receiver_open, start, cron, allowed_roles,
                   permissions, consumed, dispatcher, cron_trigger>>

\* discord_service.get_user_info and the parse of the user's id
get_user_info(c) ==
    /\ cb[c].pc = "get_user_info"
    /\ \/ Return(c, Http("user"))
       \/ Return(c, DiscordApi("User info request failed"))
       \/ \E id \in DiscordUserIds :
             IF parse_i64(id).ok
             THEN cb' = [cb EXCEPT ![c].pc = "can_link_accounts",
                                   ![c].discord_id = parse_i64(id).value]
             ELSE Return(c, DiscordApi(MsgInvalidDiscordId))
    /\ UNCHANGED <<user_links, oauth_states, now, next_token, next_link_id,
                   telegram_queue, receiver_open, start, cron, allowed_roles,
                   permissions, consumed, dispatcher, cron_trigger>>

\* can_link_accounts, called by oauth_callback and again by create_user_link
can_link_accounts(c) ==
    /\ cb[c].pc \in {"can_link_accounts", "create_user_link"}
    /\ IF find_by_discord_id(user_links, cb[c].discord_id) # {}
       THEN Return(c, BadRequest(MsgDiscordLinked))
       ELSE Goto(c, IF cb[c].pc = "can_link_accounts" THEN "create_user_link"
                    ELSE "create_link")
    /\ UNCHANGED <<user_links, oauth_states, now, next_token, next_link_id,
                   telegram_queue, receiver_open, start, cron, allowed_roles,
                   permissions, consumed, dispatcher, cron_trigger>>

\* UserLink::create_link of create_user_link
create_user_link(c) ==
    /\ cb[c].pc = "create_link"
    /\ ~KeyLocked(cb[c].discord_id, cb[c].telegram_id)
    /\ IF UniqueViolation(user_links, cb[c].discord_id, cb[c].telegram_id)
       THEN /\ Return(c, Database("unique_violation"))
            /\ UNCHANGED <<user_links, next_link_id, dispatcher, cron_trigger>>
       ELSE /\ user_links' = create_link(user_links, next_link_id,
                                         cb[c].discord_id, cb[c].telegram_id)
            /\ next_link_id' = next_link_id + 1
            /\ cb' = [cb EXCEPT ![c].pc = "send", ![c].link_id = next_link_id]
    /\ UNCHANGED <<oauth_states, now, next_token, telegram_queue,
                   receiver_open, start, cron, allowed_roles, permissions,
                   consumed, dispatcher, cron_trigger>>

\* a callback that never sends InviteUser
send_invite_dropped(c) ==
    /\ cb[c].pc = "send"
    /\ Goto(c, "mark_added_to_group")
    /\ UNCHANGED <<user_links, oauth_states, now, next_token, next_link_id,
                   telegram_queue, receiver_open, start, cron, allowed_roles,
                   permissions, consumed, dispatcher, cron_trigger>>

\* a callback that undoes the link and fails when the send fails
send_invite_strict(c) ==
    /\ cb[c].pc = "send"
    /\ IF receiver_open
       THEN /\ telegram_queue' = Append(telegram_queue, InviteUser(cb[c].telegram_id))
            /\ cb' = [cb EXCEPT ![c].pc = "mark_added_to_group",
                                ![c].invites = @ + 1]
            /\ UNCHANGED user_links
       ELSE /\ Return(c, InternalError("send"))
            /\ user_links' = {l \in user_links : l.id # cb[c].link_id}
            /\ UNCHANGED telegram_queue
    /\ UNCHANGED <<oauth_states, now, next_token, next_link_id, receiver_open,
                   start, cron, allowed_roles, permissions, consumed,
                   dispatcher, cron_trigger>>

\* telegram_sender.send(InviteUser): a failed send is logged and ignored
send_invite(c) ==
    /\ cb[c].pc = "send"
    /\ IF receiver_open
       THEN /\ telegram_queue' = Append(telegram_queue, InviteUser(cb[c].telegram_id))
            /\ cb' = [cb EXCEPT ![c].pc = "mark_added_to_group",
                                ![c].invites = @ + 1]
       ELSE /\ Goto(c, "mark_added_to_group")
            /\ UNCHANGED telegram_queue
    /\ UNCHANGED <<user_links, oauth_states, now, next_token, next_link_id,
                   receiver_open, start, cron, allowed_roles, permissions,
                   consumed, dispatcher, cron_trigger>>

\* UserLink::mark_added_to_group and the success page
mark_added(c) ==
    /\ cb[c].pc = "mark_added_to_group"
    /\ \A l \in user_links : l.id = cb[c].link_id => ~RowLocked(l)
    /\ \/ /\ user_links' = mark_added_to_group(user_links, cb[c].link_id)
          /\ Return(c, Ok)
       \/ /\ Return(c, Database("io"))
          /\ UNCHANGED user_links
    /\ UNCHANGED <<oauth_states, now, next_token, next_link_id, telegram_queue,
                   receiver_open, start, cron, allowed_roles, permissions,
                   consumed, dispatcher, cron_trigger>>

----------------------------------------------------------------------------
(* The role verification job: src/src/cron.rs.                             *)

VerificationStats == [users_checked |-> 0, users_removed |-> 0, users_failed |-> 0]

\* a runner: its place in the cycle, the guilds still to verify, the guild
\* and the users of verify_users_in_guild, the rows its open transaction has
\* deleted, whether a statement of the transaction has failed, and (history)
\* the rows for which the cycle has sent RemoveUser, the rows a check of
\* the cycle has found qualified and the number of turns that found the user
\* qualified, and whether the last turn of the loop over the users has ended
\* with the sleep of api_delay_ms
IdleCron ==
    [pc |-> "idle", guilds |-> {}, guild |-> 0, roles |-> {}, users |-> {},
     user |-> UserLink(0, 0, 0), tx_deleted |-> {}, tx_failed |-> FALSE,
     sent |-> {}, kept |-> {}, users_kept |-> 0, stats |-> VerificationStats,
     slept |-> FALSE]

\* RoleVerificationConfig::default: api_delay_ms
api_delay_ms == 250

\* table telegram_groups: the chat id of the Telegram group of a guild
\* (telegram_group_id; the chat ids of groups are negative)
telegram_group_id(guild) == 0 - (100 + guild)

\* TelegramAction::RemoveUser of verify_users_in_guild
RemoveUser(telegram_id, guild_id) ==
    [type |-> "RemoveUser", id |-> telegram_id, group_id |-> guild_id]

\* AllowedGuild::get_guilds
get_guilds == DOMAIN allowed_roles

\* AllowedRole::get_guild_role_ids
get_guild_role_ids(guild) == allowed_roles[guild]

\* UserLink::get_all_guild_users, as the transaction of runner r sees the table
get_all_guild_users(r) == {l \in user_links : l.id \notin cron[r].tx_deleted}

\* the answers of http.get_member: the roles of the member, or an error
MemberFetches ==
    {[ok |-> TRUE, roles |-> member_roles] : member_roles \in SUBSET Roles}
        \cup {[ok |-> FALSE, roles |-> {}]}

\* user_has_required_roles, on the roles of the fetched member
user_has_required_roles(member_roles, roles) ==
    \E role_id \in member_roles : role_id \in roles

\* a cycle_begin that takes every pending Execute for the one cycle it starts
cycle_begin_coalescing(r) ==
    /\ cron[r].pc = "idle"
    /\ r = "manual" => cron_trigger.receiver_open /\ cron_trigger.executes > 0
    /\ cron_trigger' = IF r = "manual"
                       THEN [cron_trigger EXCEPT !.executes = 0]
                       ELSE cron_trigger
    /\ cron' = [cron EXCEPT ![r] = [IdleCron EXCEPT !.pc = "guild",
                                      !.guilds = get_guilds]]
    /\ UNCHANGED <<user_links, oauth_states, now, next_token, next_link_id,
                   telegram_queue, receiver_open, start, cb, allowed_roles,
                   permissions, consumed, dispatcher>>

\* run_role_verification_cycle: with_tx begins the transaction and
\* verify_all_guilds_user_roles reads the allowed guilds
cycle_begin(r) ==
    /\ cron[r].pc = "idle"
    /\ r = "manual" => cron_trigger.receiver_open /\ cron_trigger.executes > 0
    /\ cron_trigger' = IF r = "manual"
                       THEN [cron_trigger EXCEPT !.executes = @ - 1]
                       ELSE cron_trigger
    /\ cron' = [cron EXCEPT ![r] = [IdleCron EXCEPT !.pc = "guild",
                                      !.guilds = get_guilds]]
    /\ UNCHANGED <<user_links, oauth_states, now, next_token, next_link_id,
                   telegram_queue, receiver_open, start, cb, allowed_roles,
                   permissions, consumed, dispatcher>>

\* verify_guild_user_roles without the test of allowed_roles.is_empty()
verify_guild_unskipped(r, g) ==
    /\ cron[r].pc = "guild"
    /\ ~cron[r].tx_failed
    /\ g \in cron[r].guilds
    /\ LET users == get_all_guild_users(r) IN
          cron' = [cron EXCEPT
              ![r].guilds = @ \ {g},
              ![r].guild = IF users = {} THEN 0 ELSE g,
              ![r].roles = IF users = {} THEN {} ELSE get_guild_role_ids(g),
              ![r].users = users,
              ![r].pc = IF users = {} THEN "guild" ELSE "user"]
    /\ UNCHANGED <<user_links, oauth_states, now, next_token, next_link_id,
                   telegram_queue, receiver_open, start, cb, allowed_roles,
                   permissions, consumed, dispatcher, cron_trigger>>

\* verify_guild_user_roles: the roles of the next guild and, unless it has
\* none, the users to verify
verify_guild_user_roles(r, g) ==
    /\ cron[r].pc = "guild"
    /\ ~cron[r].tx_failed
    /\ g \in cron[r].guilds
    /\ LET roles == get_guild_role_ids(g)
           users == IF roles = {} THEN {} ELSE get_all_guild_users(r) IN
          cron' = [cron EXCEPT
              ![r].guilds = @ \ {g},
              ![r].guild = IF users = {} THEN 0 ELSE g,
              ![r].roles = IF users = {} THEN {} ELSE roles,
              ![r].users = users,
              ![r].pc = IF users = {} THEN "guild" ELSE "user"]
    /\ UNCHANGED <<user_links, oauth_states, now, next_token, next_link_id,
                   telegram_queue, receiver_open, start, cb, allowed_roles,
                   permissions, consumed, dispatcher, cron_trigger>>

\* the loop over the users goes on, or the guild is done
NextUser(q) ==
    IF q.users = {}
    THEN [q EXCEPT !.pc = "guild", !.guild = 0, !.roles = {}, !.user = IdleCron.user,
                   !.slept = FALSE]
    ELSE [q EXCEPT !.pc = "user", !.user = IdleCron.user, !.slept = FALSE]

\* the end of the body of the loop, which the turns that leave by continue do
\* not reach: the sleep when index < total_users - 1 and api_delay_ms > 0
sleep(q) ==
    IF q.users # {} /\ api_delay_ms > 0
    THEN [NextUser(q) EXCEPT !.slept = TRUE]
    ELSE NextUser(q)

\* a failed fetch that ends the loop over the users
fetch_failed_aborts(q) ==
    [q EXCEPT !.pc = "guild", !.guild = 0, !.roles = {}, !.users = {},
              !.stats.users_failed = @ + 1]

\* the Err arm of the fetch: the user is counted as failed and the loop goes on
fetch_failed(q) ==
    sleep([q EXCEPT !.stats.users_failed = @ + 1])

\* a failed send that is not counted
send_failed_uncounted(q, u) == NextUser(q)

\* a failed send that is ignored: the row of the user is deleted next
send_failed_ignored(q, u) == [q EXCEPT !.pc = "delete", !.user = u]

\* telegram_sender.send returns an error: the user is counted as failed and
\* the loop goes on
send_failed(q, u) ==
    NextUser([q EXCEPT !.stats.users_failed = @ + 1])

\* verify_users_in_guild: the member of user u is fetched from Discord; a
\* user without an allowed role has RemoveUser sent before the row is deleted
verify_user(r, u, fetched) ==
    /\ cron[r].pc = "user"
    /\ u \in cron[r].users
    /\ LET checked == [cron[r] EXCEPT !.users = @ \ {u},
                                      !.stats.users_checked = @ + 1,
                                      !.slept = FALSE] IN
       IF ~fetched.ok
       THEN /\ cron' = [cron EXCEPT ![r] = fetch_failed(checked)]
            /\ UNCHANGED telegram_queue
       ELSE IF user_has_required_roles(fetched.roles, cron[r].roles)
       THEN /\ cron' = [cron EXCEPT ![r] =
                               NextUser([checked EXCEPT !.kept = @ \cup {u.id},
                                                        !.users_kept = @ + 1])]
            /\ UNCHANGED telegram_queue
       ELSE IF receiver_open
       THEN /\ Len(Submitted) < MaxQueue
            /\ telegram_queue' =
                  Append(telegram_queue, RemoveUser(u.telegram_id, cron[r].guild))
            /\ cron' = [cron EXCEPT ![r] = [checked EXCEPT !.pc = "delete",
                                                           !.user = u,
                                                           !.sent = @ \cup {u.id}]]
       ELSE /\ cron' = [cron EXCEPT ![r] = send_failed(checked, u)]
            /\ UNCHANGED telegram_queue
    /\ UNCHANGED <<user_links, oauth_states, now, next_token, next_link_id,
                   receiver_open, start, cb, allowed_roles, permissions,
                   consumed, dispatcher, cron_trigger>>

\* a DELETE that removes no row
delete_user_link_skipped(r) ==
    /\ cron[r].pc = "delete"
    /\ ~cron[r].tx_failed
    /\ cron' = [cron EXCEPT ![r] = sleep([cron[r] EXCEPT
                  !.stats.users_removed = @ + 1])]
    /\ UNCHANGED <<user_links, oauth_states, now, next_token, next_link_id,
                   telegram_queue, receiver_open, start, cb, allowed_roles,
                   permissions, consumed, dispatcher, cron_trigger>>

\* UserLink::delete_by_discord_id inside the transaction of the cycle
delete_user_link(r) ==
    /\ cron[r].pc = "delete"
    /\ ~cron[r].tx_failed
    /\ LET rows == delete_by_discord_id(get_all_guild_users(r), cron[r].user.discord_id) IN
       /\ \A l \in rows : ~RowLocked(l)
       /\ cron' = [cron EXCEPT ![r] = sleep([cron[r] EXCEPT
                     !.tx_deleted = @ \cup {l.id : l \in rows},
                     !.stats.users_removed = @ + 1])]
    /\ UNCHANGED <<user_links, oauth_states, now, next_token, next_link_id,
                   telegram_queue, receiver_open, start, cb, allowed_roles,
                   permissions, consumed, dispatcher, cron_trigger>>

\* UserLink::delete_by_discord_id returns an error: the statement fails and
\* leaves the transaction failed, and so does every statement after it
delete_user_link_failed(r) ==
    /\ cron[r].pc = "delete"
    /\ cron' = [cron EXCEPT ![r] = NextUser([cron[r] EXCEPT
                  !.tx_failed = TRUE,
                  !.stats.users_failed = @ + 1])]
    /\ UNCHANGED <<user_links, oauth_states, now, next_token, next_link_id,
                   telegram_queue, receiver_open, start, cb, allowed_roles,
                   permissions, consumed, dispatcher, cron_trigger>>

\* a commit that stamps last_subscription_check on the rows the cycle keeps
cycle_commit_stamping(r) ==
    /\ cron[r].pc = "guild"
    /\ cron[r].guilds = {}
    /\ ~cron[r].tx_failed
    /\ user_links' = {[l EXCEPT !.last_subscription_check = TRUE] :
                         l \in {k \in user_links : k.id \notin cron[r].tx_deleted}}
    /\ cron' = [cron EXCEPT ![r] = IdleCron]
    /\ UNCHANGED <<oauth_states, now, next_token, next_link_id, telegram_queue,
                   receiver_open, start, cb, allowed_roles, permissions,
                   consumed, dispatcher, cron_trigger>>

\* with_tx: the guilds are done and the transaction commits
cycle_commit(r) ==
    /\ cron[r].pc = "guild"
    /\ cron[r].guilds = {}
    /\ ~cron[r].tx_failed
    /\ user_links' = {l \in user_links : l.id \notin cron[r].tx_deleted}
    /\ cron' = [cron EXCEPT ![r] = IdleCron]
    /\ UNCHANGED <<oauth_states, now, next_token, next_link_id, telegram_queue,
                   receiver_open, start, cb, allowed_roles, permissions,
                   consumed, dispatcher, cron_trigger>>

\* with_tx after a failed statement: the next statement of the cycle fails
\* too, or the COMMIT of the failed transaction rolls it back; no DELETE of
\* the cycle takes effect
cycle_rollback(r) ==
    /\ cron[r].pc = "guild"
    /\ cron[r].tx_failed
    /\ cron' = [cron EXCEPT ![r] = IdleCron]
    /\ UNCHANGED <<user_links, oauth_states, now, next_token, next_link_id,
                   telegram_queue, receiver_open, start, cb, allowed_roles,
                   permissions, consumed, dispatcher, cron_trigger>>

\* a with_tx that commits on Err as well
guild_read_failed_committing(r) ==
    /\ cron[r].pc = "guild"
    /\ cron[r].guilds # {}
    /\ user_links' = {l \in user_links : l.id \notin cron[r].tx_deleted}
    /\ cron' = [cron EXCEPT ![r] = IdleCron]
    /\ UNCHANGED <<oauth_states, now, next_token, next_link_id, telegram_queue,
                   receiver_open, start, cb, allowed_roles, permissions,
                   consumed, dispatcher, cron_trigger>>

\* verify_guild_user_roles: get_guild_role_ids or get_all_guild_users of the
\* next guild returns an error; the ? ends verify_all_guilds_user_roles with
\* Err and with_tx rolls the transaction back
guild_read_failed(r) ==
    /\ cron[r].pc = "guild"
    /\ cron[r].guilds # {}
    /\ cron' = [cron EXCEPT ![r] = IdleCron]
    /\ UNCHANGED <<user_links, oauth_states, now, next_token, next_link_id,
                   telegram_queue, receiver_open, start, cb, allowed_roles,
                   permissions, consumed, dispatcher, cron_trigger>>

----------------------------------------------------------------------------
(* The consumer of the channel (src/src/telegram/mod.rs).                  *)

\* the requests to the Bot API, with their outcome
BanChatMember(chat_id, user_id, ok) ==
    [method |-> "banChatMember", chat_id |-> chat_id, user_id |-> user_id,
     ok |-> ok]

UnbanChatMember(chat_id, user_id, ok) ==
    [method |-> "unbanChatMember", chat_id |-> chat_id, user_id |-> user_id,
     ok |-> ok]

\* bot.create_chat_invite_link(group_id) with no setter called on the
\* request: member_limit is not sent (0), the link has no limit of joins
CreateChatInviteLink(chat_id, ok) ==
    [method |-> "createChatInviteLink", chat_id |-> chat_id, member_limit |-> 0,
     ok |-> ok]

\* invite.invite_link of the answer to a createChatInviteLink
invite_link(request) ==
    [chat_id |-> request.chat_id, member_limit |-> request.member_limit]

\* make_invite_message: the text with the link
make_invite_message(link) == [text |-> "invite", link |-> link]

SendMessage(chat_id, message, ok) ==
    [method |-> "sendMessage", chat_id |-> chat_id, message |-> message,
     ok |-> ok]

\* a kick_user that goes on to the unban when the ban has failed
kick_user_always_unban(user_id, group_id) ==
    {<<BanChatMember(group_id, user_id, banned),
       UnbanChatMember(group_id, user_id, unbanned)>> :
        banned \in BOOLEAN, unbanned \in BOOLEAN}

\* kick_user: the requests it makes, for every outcome of each; the ? after
\* the ban and after the unban ends the function at the first error
kick_user(user_id, group_id) ==
    {<<BanChatMember(group_id, user_id, FALSE)>>}
        \cup {<<BanChatMember(group_id, user_id, TRUE),
                UnbanChatMember(group_id, user_id, unbanned)>> :
                  unbanned \in BOOLEAN}

\* a send_invite_to_user that writes to the user whether or not the link
\* was created
send_invite_to_user_always(user_id, group_id) ==
    {<<CreateChatInviteLink(group_id, created),
       SendMessage(user_id,
                   make_invite_message(
                       invite_link(CreateChatInviteLink(group_id, created))),
                   sent)>> :
        created \in BOOLEAN, sent \in BOOLEAN}

\* send_invite_to_user: the requests it makes, for every outcome of each
send_invite_to_user(user_id, group_id) ==
    {<<CreateChatInviteLink(group_id, FALSE)>>}
        \cup {<<CreateChatInviteLink(group_id, TRUE),
                SendMessage(user_id,
                            make_invite_message(
                                invite_link(CreateChatInviteLink(group_id, TRUE))),
                            sent)>> :
                  sent \in BOOLEAN}

\* process_telegram_actions: the match on the action
handler_runs(action) ==
    IF action.type = "InviteUser"
    THEN send_invite_to_user(action.id, action.group_id)
    ELSE kick_user(action.id, action.group_id)

\* the ResponseResult of a handler: Ok when no request has failed
run_ok(run) == \A i \in 1..Len(run) : run[i].ok

\* a loop that spawns a task per action: the next action is received while
\* the handler of the last one is still running
recv_spawned ==
    /\ receiver_open
    /\ telegram_queue # <<>>
    /\ dispatcher' = [dispatcher EXCEPT !.handling = Append(@, Head(telegram_queue))]
    /\ telegram_queue' = Tail(telegram_queue)
    /\ UNCHANGED <<user_links, oauth_states, now, next_token, next_link_id,
                   receiver_open, start, cb, cron, allowed_roles, permissions,
                   consumed, cron_trigger>>

\* receiver.recv().await returns the oldest action of the channel; the loop
\* is back at recv only when the handler of the last action has returned
recv ==
    /\ receiver_open
    /\ dispatcher.handling = <<>>
    /\ telegram_queue # <<>>
    /\ dispatcher' = [dispatcher EXCEPT !.handling = <<Head(telegram_queue)>>]
    /\ telegram_queue' = Tail(telegram_queue)
    /\ UNCHANGED <<user_links, oauth_states, now, next_token, next_link_id,
                   receiver_open, start, cb, cron, allowed_roles, permissions,
                   consumed, cron_trigger>>

\* a handler whose failure puts the action back into the channel
handle_requeued(ok) ==
    /\ dispatcher.handling # <<>>
    /\ \E run \in handler_runs(Head(dispatcher.handling)) :
          /\ run_ok(run) = ok
          /\ dispatcher' = [handling |-> Tail(dispatcher.handling),
                            handled |-> Append(dispatcher.handled,
                                [action |-> Head(dispatcher.handling), ok |-> ok]),
                            calls |-> run]
    /\ telegram_queue' = IF ok THEN telegram_queue
                         ELSE Append(telegram_queue, Head(dispatcher.handling))
    /\ UNCHANGED <<user_links, oauth_states, now, next_token, next_link_id,
                   receiver_open, start, cb, cron, allowed_roles, permissions,
                   consumed, cron_trigger>>

\* invite_user / remove_user: the calls to Telegram succeed or one of them
\* fails; the error is logged, the handler returns () and the loop goes on;
\* calls keeps the requests of the last handler
handle(ok) ==
    /\ dispatcher.handling # <<>>
    /\ \E run \in handler_runs(Head(dispatcher.handling)) :
          /\ run_ok(run) = ok
          /\ dispatcher' = [handling |-> Tail(dispatcher.handling),
                            handled |-> Append(dispatcher.handled,
                                [action |-> Head(dispatcher.handling), ok |-> ok]),
                            calls |-> run]
    /\ UNCHANGED <<user_links, oauth_states, now, next_token, next_link_id,
                   telegram_queue, receiver_open, start, cb, cron,
                   allowed_roles, permissions, consumed, cron_trigger>>

----------------------------------------------------------------------------
(* The triggers of a manual verification (src/src/api/cron.rs,              *)
(* src/src/discord/commands/verify_members.rs).                            *)

\* the /cron request of state.env.cron_secret
CronSecret == "s3cret"

\* the invocations of a slash command: the guild it comes from (0: none, 3:
\* a guild that is not allowed), whether the channel is an allowed channel of
\* the guild, whether author_member() finds the member, and the member's roles
Contexts ==
    [guild : {0, 3} \cup Guilds, on_channel : BOOLEAN, member : BOOLEAN,
     roles : SUBSET MemberRoles]

\* AllowedGuild::get_guild_ids
get_guild_ids == DOMAIN allowed_roles

\* AllowedRole::get_guild_admin_ids: the rows of allowed_roles with is_admin
get_guild_admin_ids(guild) == IF guild = 1 THEN {30} ELSE {}

\* is_admin: Err outside an allowed guild or an allowed channel or without
\* the member, else whether a role of the member is an admin role of the guild
is_admin(ctx) ==
    IF ctx.guild \notin get_guild_ids THEN "Err"
    ELSE IF ~ctx.on_channel THEN "Err"
    ELSE IF ~ctx.member THEN "Err"
    ELSE IF \E role_id \in ctx.roles : role_id \in get_guild_admin_ids(ctx.guild)
    THEN "true"
    ELSE "false"

\* cron_sender.send(CronAction::Execute): Err when the receiver is gone
send_execute(trigger, ok, failed) ==
    IF trigger.receiver_open
    THEN [trigger EXCEPT !.executes = @ + 1, !.response = ok]
    ELSE [trigger EXCEPT !.response = failed]

\* a /cron handler that does not compare the secret
cron_start_open(secret) ==
    /\ cron_trigger.executes < MaxSignals
    /\ cron_trigger' = send_execute(cron_trigger, Ok,
                             InternalError("failed start cron job manually"))
    /\ UNCHANGED <<user_links, oauth_states, now, next_token, next_link_id,
                   telegram_queue, receiver_open, start, cb, cron,
                   allowed_roles, permissions, consumed, dispatcher>>

\* GET /cron?secret=..
cron_start(secret) ==
    /\ cron_trigger.executes < MaxSignals
    /\ cron_trigger' =
          IF CronSecret # secret
          THEN [cron_trigger EXCEPT !.response = ForbiddenRequest("invalid cron secret")]
          ELSE send_execute(cron_trigger, Ok,
                            InternalError("failed start cron job manually"))
    /\ UNCHANGED <<user_links, oauth_states, now, next_token, next_link_id,
                   telegram_queue, receiver_open, start, cb, cron,
                   allowed_roles, permissions, consumed, dispatcher>>

\* /checar_membros: poise runs the command only when the check is_admin
\* returned Ok(true); the command replies whether the send succeeded
verify_members(ctx) ==
    /\ cron_trigger.executes < MaxSignals
    /\ cron_trigger' =
          IF is_admin(ctx) = "true"
          THEN send_execute(cron_trigger, Reply("started"), Reply("failed"))
          ELSE [cron_trigger EXCEPT !.response = Reply("refused")]
    /\ UNCHANGED <<user_links, oauth_states, now, next_token, next_link_id,
                   telegram_queue, receiver_open, start, cb, cron,
                   allowed_roles, permissions, consumed, dispatcher>>

\* manual_role_verification_runner receives Execute and fails to acquire a
\* connection: the signal is dropped and the loop goes on
manual_acquire_failed ==
    /\ cron["manual"].pc = "idle"
    /\ cron_trigger.receiver_open
    /\ cron_trigger.executes > 0
    /\ cron_trigger' = [cron_trigger EXCEPT !.executes = @ - 1]
    /\ UNCHANGED <<user_links, oauth_states, now, next_token, next_link_id,
                   telegram_queue, receiver_open, start, cb, cron,
                   allowed_roles, permissions, consumed, dispatcher>>

\* the task of manual_role_verification_runner ends: its receiver is dropped
CronReceiverClosed ==
    /\ cron_trigger.receiver_open
    /\ cron["manual"].pc = "idle"
    /\ cron_trigger' = [cron_trigger EXCEPT !.receiver_open = FALSE]
    /\ UNCHANGED <<user_links, oauth_states, now, next_token, next_link_id,
                   telegram_queue, receiver_open, start, cb, cron,
                   allowed_roles, permissions, consumed, dispatcher>>

----------------------------------------------------------------------------
(* The permission lists: the admin commands on allowed_channels and        *)
(* allowed_roles.                                                          *)

ChannelIds == {1, 2}

ChannelNames == {"geral", "avisos"}

\* the role ids the commands are called with
RoleIds == {10}

\* the id argument of the delete commands, as the characters typed
ChannelIdParams == {<<"1">>, <<"2">>, <<"x">>}

RoleIdParams == {<<"1", "0">>, <<"2", "0">>, <<"x">>}

MsgChannelExists == "Canal já existe na lista"

MsgChannelNotFound == "Canal não encontrado na lista"

MsgChannelInvalid == "ID do canal inválido"

MsgRoleExists == "Cargo já existe na lista"

MsgRoleNotFound == "Cargo não encontrado na lista"

MsgRoleInvalid == "ID do cargo inválido"

PermissionError(message) == [kind |-> "Permission", message |-> message]

InvalidChannelError(message) == [kind |-> "InvalidChannel", message |-> message]

InvalidRoleError(message) == [kind |-> "InvalidRole", message |-> message]

\* Ok(new_channel) of add_channel_inner
OkChannel(row) == [kind |-> "Ok", channel |-> row]

\* Ok(new_role) of add_role_inner
OkRole(row) == [kind |-> "Ok", role |-> row]

\* Ok(channel_id) and Ok(role_id) of the delete functions
OkId(id) == [kind |-> "Ok", id |-> id]

AllowedChannel(channel_id, name, guild_id) ==
    [channel_id |-> channel_id, name |-> name, guild_id |-> guild_id]

AllowedRole(role_id, name, admin, guild_id) ==
    [role_id |-> role_id, name |-> name, is_admin |-> admin,
     guild_id |-> guild_id]

\* the rows of allowed_roles behind the role ids the verifier reads
InitPermissions(role_ids) ==
    [channels |-> {},
     roles |-> UNION {{AllowedRole(role_id, "cargo", FALSE, g) :
                         role_id \in role_ids[g]} : g \in DOMAIN role_ids},
     added_channels |-> {},
     reply |-> NoResult]

\* an AllowedChannel::exists that does not look at the guild
AllowedChannel_exists_any_guild(rows, channel_id, guild_id) ==
    \E row \in rows : row.channel_id = channel_id

\* AllowedChannel::exists: WHERE channel_id = $1 AND guild_id = $2
AllowedChannel_exists(rows, channel_id, guild_id) ==
    \E row \in rows : row.channel_id = channel_id /\ row.guild_id = guild_id

\* AllowedChannel::get_guild_channels: WHERE guild_id = $1
get_guild_channels(rows, guild_id) == {row \in rows : row.guild_id = guild_id}

\* AllowedChannel::create: INSERT ... ON CONFLICT (channel_id) DO UPDATE SET
\* name = $2 RETURNING *: the row with the channel id, whatever its guild,
\* takes the name and is the row returned; without one the payload is inserted
AllowedChannel_create(rows, payload) ==
    IF \E row \in rows : row.channel_id = payload.channel_id
    THEN LET old == CHOOSE row \in rows : row.channel_id = payload.channel_id
             new == [old EXCEPT !.name = payload.name]
         IN  [rows |-> (rows \ {old}) \cup {new}, row |-> new]
    ELSE [rows |-> rows \cup {payload}, row |-> payload]

\* AllowedChannel::delete: DELETE ... WHERE channel_id = $1
AllowedChannel_delete(rows, channel_id) ==
    {row \in rows : row.channel_id # channel_id}

\* an AllowedRole::exists that does not look at the guild
AllowedRole_exists_any_guild(rows, role_id, guild_id) ==
    \E row \in rows : row.role_id = role_id

\* AllowedRole::exists: WHERE role_id = $1 AND guild_id = $2
AllowedRole_exists(rows, role_id, guild_id) ==
    \E row \in rows : row.role_id = role_id /\ row.guild_id = guild_id

\* AllowedRole::create: INSERT ... RETURNING *
AllowedRole_create(rows, payload) ==
    [rows |-> rows \cup {payload}, row |-> payload]

\* AllowedRole::delete: DELETE ... WHERE role_id = $1 AND guild_id = $2
AllowedRole_delete(rows, role_id, guild_id) ==
    {row \in rows : ~(row.role_id = role_id /\ row.guild_id = guild_id)}

\* AllowedRole::get_roles: WHERE guild_id = $1
get_roles(rows, guild_id) == {row \in rows : row.guild_id = guild_id}

\* list_roles_inner: the admin roles and the others of the guild
list_roles_inner(rows, guild_id) ==
    [admin_roles |-> {row \in get_roles(rows, guild_id) : row.is_admin},
     non_admin_roles |-> {row \in get_roles(rows, guild_id) : ~row.is_admin}]

\* AllowedRole::get_guild_role_ids over the rows, for every guild
guild_role_ids(rows) ==
    [g \in DOMAIN allowed_roles |-> {row.role_id : row \in get_roles(rows, g)}]

add_channel_inner(id, name, guild_id) ==
    /\ IF AllowedChannel_exists(permissions.channels, id, guild_id)
       THEN permissions' =
                [permissions EXCEPT !.reply = PermissionError(MsgChannelExists)]
       ELSE LET created == AllowedChannel_create(permissions.channels,
                                                 AllowedChannel(id, name, guild_id))
            IN  permissions' =
                    [permissions EXCEPT
                        !.channels = created.rows,
                        !.added_channels = @ \cup {<<guild_id, id>>},
                        !.reply = OkChannel(created.row)]
    /\ UNCHANGED <<user_links, oauth_states, now, next_token, next_link_id,
                   telegram_queue, receiver_open, start, cb, cron,
                   allowed_roles, consumed, dispatcher, cron_trigger>>

del_channel_inner(id, guild_id) ==
    /\ IF ~parse_i64(id).ok
       THEN permissions' =
                [permissions EXCEPT !.reply = InvalidChannelError(MsgChannelInvalid)]
       ELSE LET channel_id == parse_i64(id).value
            IN  IF ~AllowedChannel_exists(permissions.channels, channel_id, guild_id)
                THEN permissions' =
                         [permissions EXCEPT
                             !.reply = PermissionError(MsgChannelNotFound)]
                ELSE permissions' =
                         [permissions EXCEPT
                             !.channels = AllowedChannel_delete(@, channel_id),
                             !.added_channels = @ \ {<<guild_id, channel_id>>},
                             !.reply = OkId(channel_id)]
    /\ UNCHANGED <<user_links, oauth_states, now, next_token, next_link_id,
                   telegram_queue, receiver_open, start, cb, cron,
                   allowed_roles, consumed, dispatcher, cron_trigger>>

add_role_inner(role_id, name, admin, guild_id) ==
    /\ IF AllowedRole_exists(permissions.roles, role_id, guild_id)
       THEN permissions' =
                [permissions EXCEPT !.reply = InvalidRoleError(MsgRoleExists)]
       ELSE LET created == AllowedRole_create(permissions.roles,
                               AllowedRole(role_id, name, admin, guild_id))
            IN  permissions' =
                    [permissions EXCEPT !.roles = created.rows,
                                        !.reply = OkRole(created.row)]
    /\ allowed_roles' = guild_role_ids(permissions'.roles)
    /\ UNCHANGED <<user_links, oauth_states, now, next_token, next_link_id,
                   telegram_queue, receiver_open, start, cb, cron, consumed,
                   dispatcher, cron_trigger>>

del_role_inner(id, guild_id) ==
    /\ IF ~parse_i64(id).ok
       THEN permissions' =
                [permissions EXCEPT !.reply = InvalidRoleError(MsgRoleInvalid)]
       ELSE LET role_id == parse_i64(id).value
            IN  IF ~AllowedRole_exists(permissions.roles, role_id, guild_id)
                THEN permissions' =
                         [permissions EXCEPT
                             !.reply = PermissionError(MsgRoleNotFound)]
                ELSE permissions' =
                         [permissions EXCEPT
                             !.roles = AllowedRole_delete(@, role_id, guild_id),
                             !.reply = OkId(role_id)]
    /\ allowed_roles' = guild_role_ids(permissions'.roles)
    /\ UNCHANGED <<user_links, oauth_states, now, next_token, next_link_id,
                   telegram_queue, receiver_open, start, cb, cron, consumed,
                   dispatcher, cron_trigger>>

----------------------------------------------------------------------------
(* The environment.                                                        *)

\* the clock of the database advances
Tick ==
    /\ now < MaxTime
    /\ now' = now + 1
    /\ UNCHANGED <<user_links, oauth_states, next_token, next_link_id,
                   telegram_queue, receiver_open, start, cb, cron,
                   allowed_roles, permissions, consumed, dispatcher,
                   cron_trigger>>

\* the task that owns the receiver of the channel ends
ReceiverClosed ==
    /\ receiver_open
    /\ receiver_open' = FALSE
    /\ UNCHANGED <<user_links, oauth_states, now, next_token, next_link_id,
                   telegram_queue, start, cb, cron, allowed_roles, permissions,
                   consumed, dispatcher, cron_trigger>>

\* the process stops in the middle of a cycle and is started again: the open
\* transaction is rolled back by the database, the actions still in the
\* in-memory channel are lost and main creates a new channel
Crash ==
    /\ \E r \in Runners : cron[r].pc # "idle"
    /\ cron' = [r \in Runners |-> IdleCron]
    /\ telegram_queue' = <<>>
    /\ receiver_open' = TRUE
    /\ dispatcher' = [dispatcher EXCEPT !.handling = <<>>]
    /\ cron_trigger' = IdleTrigger
    /\ UNCHANGED <<user_links, oauth_states, now, next_token, next_link_id,
                   start, cb, allowed_roles, permissions, consumed>>

----------------------------------------------------------------------------

\* the state parameter of a callback request: a token some start call has
\* returned, or 0, a string that is no token of any start call
StateParams == {0} \cup {token \in Tokens : token < next_token}

InitStore ==
    /\ user_links = {}
    /\ oauth_states = {}
    /\ now = 0
    /\ next_token = 1
    /\ next_link_id = 1
    /\ telegram_queue = <<>>
    /\ start = IdleStart
    /\ cb = [c \in Callbacks |-> IdleCallback]
    /\ cron = [r \in Runners |-> IdleCron]
    /\ consumed = [t \in Tokens |-> 0]
    /\ dispatcher = IdleDispatcher
    /\ cron_trigger = IdleTrigger

\* the handlers of the API, with the callback requests of cs in flight
OAuth(cs) ==
    \/ \E t \in TelegramIds : oauth_start_check(t)
    \/ oauth_start_create
    \/ \E c \in cs, token \in StateParams : get_oauth_state(c, token)
    \/ \E c \in cs : get_access_token(c)
    \/ \E c \in cs : get_user_info(c)
    \/ \E c \in cs : can_link_accounts(c)
    \/ \E c \in cs : create_user_link(c)
    \/ \E c \in cs : send_invite(c)
    \/ \E c \in cs : mark_added(c)

\* the verification job, with the runners of rs
Cron(rs) ==
    \/ \E r \in rs : cycle_begin(r)
    \/ \E r \in rs : \E g \in cron[r].guilds : verify_guild_user_roles(r, g)
    \/ \E r \in rs : \E u \in cron[r].users, fetched \in MemberFetches :
          verify_user(r, u, fetched)
    \/ \E r \in rs : delete_user_link(r)
    \/ \E r \in rs : cycle_commit(r)

\* the callback requests of cs alone
Callback(cs) ==
    \/ \E c \in cs, token \in StateParams : get_oauth_state(c, token)
    \/ \E c \in cs : get_access_token(c)
    \/ \E c \in cs : get_user_info(c)
    \/ \E c \in cs : can_link_accounts(c)
    \/ \E c \in cs : create_user_link(c)
    \/ \E c \in cs : send_invite(c)
    \/ \E c \in cs : mark_added(c)

\* the loop of process_telegram_actions
Dispatcher ==
    \/ recv
    \/ \E ok \in BOOLEAN : handle(ok)

\* a statement of the transaction of a cycle fails
CronFailure(rs) ==
    \/ \E r \in rs : delete_user_link_failed(r)
    \/ \E r \in rs : cycle_rollback(r)
    \/ \E r \in rs : guild_read_failed(r)

\* The OAuth flow with the clock of the pending states: two callback
\* requests race, every guild has every role allowed and no verification
\* cycle runs.
Init ==
    /\ InitStore
    /\ receiver_open = TRUE
    /\ allowed_roles = [g \in Guilds |-> Roles]
    /\ permissions = InitPermissions(allowed_roles)

Next == OAuth(Callbacks) \/ Tick \/ ReceiverClosed

Spec == Init /\ [][Next]_vars

\* The OAuth flow together with the cycles of the scheduler over one guild
\* with every role or no role allowed, with the receiver of the channel alive
\* for the whole run or gone from its start; no pending state expires and no
\* statement of the database fails.
InitVerify ==
    /\ InitStore
    /\ receiver_open \in BOOLEAN
    /\ allowed_roles \in [{1} -> {{}, Roles}]
    /\ permissions = InitPermissions(allowed_roles)

NextVerify == OAuth(Callbacks) \/ Cron({"timer"})

SpecVerify == InitVerify /\ [][NextVerify]_vars

\* the links two finished OAuth flows have left in the table
SeedLinks ==
    {[UserLink(1, 1, 1) EXCEPT !.added_to_group_at = TRUE],
     [UserLink(2, 2, 2) EXCEPT !.added_to_group_at = TRUE]}

\* The verification job alone, over the links earlier OAuth flows have left:
\* any allowed roles for two guilds, the receiver of the channel alive
\* or gone, statements of the transaction that fail.
InitCron ==
    /\ user_links \in SUBSET SeedLinks
    /\ oauth_states = {}
    /\ now = 0
    /\ next_token = MaxTokens + 1
    /\ next_link_id = 3
    /\ telegram_queue = <<>>
    /\ receiver_open \in BOOLEAN
    /\ start = [IdleStart EXCEPT !.pc = "done", !.store_access = TRUE,
                                 !.result = ForbiddenRequest(MsgTelegramLinked)]
    /\ cb = [c \in Callbacks |-> [IdleCallback EXCEPT !.pc = "done", !.result = Ok]]
    /\ cron = [r \in Runners |-> IdleCron]
    /\ consumed = [t \in Tokens |-> 1]
    /\ dispatcher = IdleDispatcher
    /\ cron_trigger = IdleTrigger
    /\ allowed_roles \in [Guilds -> SUBSET Roles]
    /\ permissions = InitPermissions(allowed_roles)

NextCron == Cron({"timer"}) \/ CronFailure({"timer"}) \/ ReceiverClosed \/ Crash

SpecCron == InitCron /\ [][NextCron]_vars

\* The producers and the consumer of the channel: a pending state of an
\* earlier start call, two callback requests, the verification job over one
\* link, and process_telegram_actions.
InitDispatch ==
    /\ user_links = {[UserLink(2, 2, 2) EXCEPT !.added_to_group_at = TRUE]}
    /\ oauth_states = OAuthState_create({}, 1, 1, 0)
    /\ now = 0
    /\ next_token = 2
    /\ next_link_id = 3
    /\ telegram_queue = <<>>
    /\ receiver_open = TRUE
    /\ start = [IdleStart EXCEPT !.pc = "done", !.store_access = TRUE, !.result = Ok]
    /\ cb = [c \in Callbacks |-> IdleCallback]
    /\ cron = [r \in Runners |-> IdleCron]
    /\ consumed = [t \in Tokens |-> 0]
    /\ dispatcher = IdleDispatcher
    /\ cron_trigger = IdleTrigger
    /\ allowed_roles = [g \in Guilds |-> {10}]
    /\ permissions = InitPermissions(allowed_roles)

NextDispatch == Callback(Callbacks) \/ Cron({"timer"}) \/ Dispatcher

SpecDispatch == InitDispatch /\ [][NextDispatch]_vars

\* process_telegram_actions is a task of its own on the runtime: whenever it
\* can receive or its handler can return, it eventually does; one callback
\* request and the verification job are the producers
NextDispatchFair == Callback({"c1"}) \/ Cron({"timer"}) \/ Dispatcher

SpecDispatchFair ==
    InitDispatch /\ [][NextDispatchFair]_vars /\ WF_vars(Dispatcher)

\* the triggers of a manual verification
Trigger ==
    \/ \E secret \in Secrets : cron_start(secret)
    \/ \E ctx \in Contexts : verify_members(ctx)

\* The manual triggers and the runner they signal, over the links earlier
\* OAuth flows have left.
InitTrigger ==
    /\ user_links = SeedLinks
    /\ oauth_states = {}
    /\ now = 0
    /\ next_token = MaxTokens + 1
    /\ next_link_id = 3
    /\ telegram_queue = <<>>
    /\ receiver_open = TRUE
    /\ start = [IdleStart EXCEPT !.pc = "done", !.store_access = TRUE,
                                 !.result = ForbiddenRequest(MsgTelegramLinked)]
    /\ cb = [c \in Callbacks |-> [IdleCallback EXCEPT !.pc = "done", !.result = Ok]]
    /\ cron = [r \in Runners |-> IdleCron]
    /\ consumed = [t \in Tokens |-> 1]
    /\ dispatcher = IdleDispatcher
    /\ cron_trigger = IdleTrigger
    /\ allowed_roles = [g \in Guilds |-> {10}]
    /\ permissions = InitPermissions(allowed_roles)

NextTrigger ==
    Trigger \/ Cron({"manual"}) \/ manual_acquire_failed \/ CronReceiverClosed

SpecTrigger == InitTrigger /\ [][NextTrigger]_vars

\* the loop of manual_role_verification_runner: an Execute is received and
\* dropped, or a cycle is started and run to its end
ManualRunner == Cron({"manual"}) \/ manual_acquire_failed

\* The manual triggers and the runner while its task lives; the runtime
\* keeps scheduling the task of the runner.
NextTriggerFair == Trigger \/ ManualRunner

SpecTriggerFair ==
    InitTrigger /\ [][NextTriggerFair]_vars /\ WF_vars(ManualRunner)

\* the admin commands on the permission lists, one call after another
Lists ==
    \/ \E id \in ChannelIds, name \in ChannelNames, g \in Guilds :
          add_channel_inner(id, name, g)
    \/ \E id \in ChannelIdParams, g \in Guilds : del_channel_inner(id, g)
    \/ \E role_id \in RoleIds, admin \in BOOLEAN, g \in Guilds :
          add_role_inner(role_id, "cargo", admin, g)
    \/ \E id \in RoleIdParams, g \in Guilds : del_role_inner(id, g)

\* The permission lists of two allowed guilds, empty at first.
InitLists ==
    /\ InitStore
    /\ receiver_open = TRUE
    /\ allowed_roles = [g \in Guilds |-> {}]
    /\ permissions = InitPermissions(allowed_roles)

NextLists == Lists

SpecLists == InitLists /\ [][NextLists]_vars

\* The verification job with statements and reads that fail, and the consumer
\* of the channel, over the link an earlier OAuth flow has left.
InitAbort ==
    /\ user_links = {[UserLink(1, 1, 1) EXCEPT !.added_to_group_at = TRUE]}
    /\ oauth_states = {}
    /\ now = 0
    /\ next_token = MaxTokens + 1
    /\ next_link_id = 3
    /\ telegram_queue = <<>>
    /\ receiver_open = TRUE
    /\ start = [IdleStart EXCEPT !.pc = "done", !.store_access = TRUE,
                                 !.result = ForbiddenRequest(MsgTelegramLinked)]
    /\ cb = [c \in Callbacks |-> [IdleCallback EXCEPT !.pc = "done", !.result = Ok]]
    /\ cron = [r \in Runners |-> IdleCron]
    /\ consumed = [t \in Tokens |-> 1]
    /\ dispatcher = IdleDispatcher
    /\ cron_trigger = IdleTrigger
    /\ allowed_roles = [g \in Guilds |-> {10}]
    /\ permissions = InitPermissions(allowed_roles)

NextAbort == Cron({"timer"}) \/ CronFailure({"timer"}) \/ Dispatcher

SpecAbort == InitAbort /\ [][NextAbort]_vars

\* The timer runner and the manual runner side by side, each on a connection
\* of its own, over the links earlier OAuth flows have left and one guild.
InitOverlap ==
    /\ user_links = SeedLinks
    /\ oauth_states = {}
    /\ now = 0
    /\ next_token = MaxTokens + 1
    /\ next_link_id = 3
    /\ telegram_queue = <<>>
    /\ receiver_open = TRUE
    /\ start = [IdleStart EXCEPT !.pc = "done", !.store_access = TRUE,
                                 !.result = ForbiddenRequest(MsgTelegramLinked)]
    /\ cb = [c \in Callbacks |-> [IdleCallback EXCEPT !.pc = "done", !.result = Ok]]
    /\ cron = [r \in Runners |-> IdleCron]
    /\ consumed = [t \in Tokens |-> 1]
    /\ dispatcher = IdleDispatcher
    /\ cron_trigger = IdleTrigger
    /\ allowed_roles = [g \in {1} |-> {10}]
    /\ permissions = InitPermissions(allowed_roles)

NextOverlap == cron_start(CronSecret) \/ Cron(Runners)

SpecOverlap == InitOverlap /\ [][NextOverlap]_vars

----------------------------------------------------------------------------
(* The properties.                                                         *)

\* C1: in every reachable state no two rows of user_links share a discord_id
\* and no two share a telegram_id
UniqueLinks ==
    \A l1, l2 \in user_links :
        (l1.discord_id = l2.discord_id \/ l1.telegram_id = l2.telegram_id)
            => l1 = l2

\* an insert was refused by the constraints and, later, a verification cycle
\* has deleted a row in its open transaction
UniqueLinksWitness ==
    /\ \E c \in Callbacks : cb[c].result = Database("unique_violation")
    /\ \E r \in Runners : cron[r].tx_deleted # {}
    /\ user_links # {}

\* C2: of two callbacks that race for the same discord_id one creates the link
\* and the other one fails with Conflict (400), never with a storage error
RacingCallbacksConflict ==
    [][\A c, d \in Callbacks :
          (/\ c # d
           /\ cb[c].pc = "create_link"
           /\ cb[d].pc \in {"send", "mark_added_to_group"}
           /\ cb[d].state # cb[c].state
           /\ cb[d].discord_id = cb[c].discord_id
           /\ cb'[c].pc = "done")
          => /\ cb'[c].result = BadRequest(MsgDiscordLinked)
             /\ into_response(cb'[c].result) = 400]_vars

\* C3: at most one callback passes the consume step of a token, a callback
\* that carries a consumed token fails with the invalid-state error, and the
\* token of every new pending state differs from every token issued before
TokenConsumedOnce ==
    [][/\ \A token \in Tokens : consumed'[token] <= 1
       /\ \A c \in Callbacks, token \in Tokens :
             (get_oauth_state(c, token) /\ consumed[token] >= 1)
             => /\ cb'[c].pc = "done"
                /\ cb'[c].result = ForbiddenRequest(MsgInvalidState)
                /\ consumed' = consumed
       /\ \A s \in oauth_states' \ oauth_states :
             /\ consumed[s.state_token] = 0
             /\ \A o \in oauth_states : o.state_token # s.state_token
             /\ start'.location = s.state_token]_vars

\* a token was consumed once and a later callback that carried it was refused
TokenConsumedOnceWitness ==
    \E c \in Callbacks :
        /\ cb[c].pc = "done"
        /\ cb[c].result = ForbiddenRequest(MsgInvalidState)
        /\ cb[c].state \in Tokens
        /\ consumed[cb[c].state] = 1
        /\ \A s \in oauth_states : s.state_token # cb[c].state

\* C4: a callback whose token has a pending state with expires_at not in the
\* future fails with the invalid-state error, consumed or not, and it creates
\* no link and sends no InviteUser
ExpiredStateRefused ==
    [][\A c \in Callbacks, s \in oauth_states :
          (get_oauth_state(c, s.state_token) /\ s.expires_at <= now)
          => /\ cb'[c].pc = "done"
             /\ cb'[c].result = ForbiddenRequest(MsgInvalidState)
             /\ into_response(cb'[c].result) = 400
             /\ user_links' = user_links
             /\ telegram_queue' = telegram_queue]_vars

\* a callback was refused for a token whose pending state is still in the
\* table, expired and never consumed
ExpiredStateRefusedWitness ==
    \E c \in Callbacks, s \in oauth_states :
        /\ cb[c].pc = "done"
        /\ cb[c].result = ForbiddenRequest(MsgInvalidState)
        /\ cb[c].state = s.state_token
        /\ s.expires_at <= now
        /\ consumed[s.state_token] = 0

\* C5, as the specification states it: when a callback returns success, one
\* row of user_links exists for its (discord_id, telegram_id) and the
\* callback has sent one InviteUser
SuccessOneLinkOneInvite ==
    [][\A c \in Callbacks :
          (/\ cb[c].pc = "mark_added_to_group"
           /\ cb'[c].pc = "done"
           /\ cb'[c].result = Ok)
          => /\ Cardinality({l \in user_links' :
                                /\ l.discord_id = cb[c].discord_id
                                /\ l.telegram_id = cb[c].telegram_id}) = 1
             /\ cb[c].invites = 1]_vars

\* C5: a callback that returns success has inserted one row for its
\* (discord_id, telegram_id); when it returns the row is stamped, or a
\* verification cycle has deleted it after sending RemoveUser for its
\* telegram_id; the callback has sent one InviteUser, or none because the
\* receiver of the channel was gone
SuccessLinkAndInvite ==
    [][\A c \in Callbacks :
          (/\ cb[c].pc = "mark_added_to_group"
           /\ cb'[c].pc = "done"
           /\ cb'[c].result = Ok)
          => LET pair == {l \in user_links' :
                             /\ l.discord_id = cb[c].discord_id
                             /\ l.telegram_id = cb[c].telegram_id}
                 removes == {i \in 1..Len(telegram_queue) :
                                /\ telegram_queue[i].type = "RemoveUser"
                                /\ telegram_queue[i].id = cb[c].telegram_id}
             IN /\ cb[c].link_id # 0
                /\ Cardinality(pair) <= 1
                /\ \A l \in user_links' :
                      l.id = cb[c].link_id => l \in pair /\ l.added_to_group_at
                /\ (\A l \in user_links' : l.id # cb[c].link_id) => removes # {}
                /\ cb[c].invites <= 1
                /\ cb[c].invites = 0 => ~receiver_open]_vars

\* a callback has returned success, its InviteUser is in the channel and a
\* verification cycle has sent RemoveUser and has deleted the only link
SuccessLinkAndInviteWitness ==
    /\ \E c \in Callbacks : cb[c].pc = "done" /\ cb[c].result = Ok
    /\ next_link_id = 2
    /\ user_links = {}
    /\ Len(telegram_queue) = 2
    /\ telegram_queue[1].type = "InviteUser"
    /\ telegram_queue[2].type = "RemoveUser"

\* C6: oauth_start for a telegram_id that has a link fails with
\* ForbiddenRequest (already linked) and leaves the pending states and the
\* links as they were
LinkedStartRefused ==
    [][\A t \in TelegramIds :
          (/\ oauth_start_check(t)
           /\ t >= 1
           /\ \E l \in user_links : l.telegram_id = t)
          => /\ start'.pc = "done"
             /\ start'.result = ForbiddenRequest(MsgTelegramLinked)
             /\ into_response(start'.result) = 400
             /\ start'.location = 0
             /\ oauth_states' = oauth_states
             /\ user_links' = user_links
             /\ next_token' = next_token]_vars

\* a start request was refused as already linked while a link exists
LinkedStartRefusedWitness ==
    /\ start.pc = "done"
    /\ start.result = ForbiddenRequest(MsgTelegramLinked)
    /\ Cardinality(user_links) = 1

\* C7: oauth_start with telegram_id < 1 fails with BadRequest before any
\* access to the store, creates no pending state and returns no redirect;
\* with telegram_id >= 1 and no link it creates one pending state bound to
\* the telegram_id and redirects with the token of that state
StartValidation ==
    [][/\ \A t \in TelegramIds :
             (oauth_start_check(t) /\ t < 1)
             => /\ start'.pc = "done"
                /\ start'.result = BadRequest(MsgInvalidTelegramId)
                /\ into_response(start'.result) = 400
                /\ ~start'.store_access
                /\ start'.location = 0
                /\ oauth_states' = oauth_states
       /\ \A t \in TelegramIds :
             (/\ oauth_start_check(t)
              /\ t >= 1
              /\ \A l \in user_links : l.telegram_id # t)
             => /\ start'.pc = "create"
                /\ start'.telegram_id = t
                /\ oauth_states' = oauth_states
       /\ start'.pc = "create" => start'.telegram_id >= 1
       /\ oauth_start_create
             => \E s \in oauth_states' :
                   /\ s \notin oauth_states
                   /\ oauth_states' = oauth_states \cup {s}
                   /\ s.telegram_id = start.telegram_id
                   /\ s.telegram_id >= 1
                   /\ start'.pc = "done"
                   /\ start'.result = Ok
                   /\ start'.location = s.state_token
       /\ oauth_states' # oauth_states /\ start' # start
             => Cardinality(oauth_states' \ oauth_states) = 1]_vars

\* a start request has failed the validation while an earlier one has left a
\* pending state for a valid telegram_id
StartValidationWitness ==
    /\ start.pc = "done"
    /\ start.result = BadRequest(MsgInvalidTelegramId)
    /\ ~start.store_access
    /\ \E s \in oauth_states : s.telegram_id >= 1

\* C8: a callback that fails at the token exchange or at the fetch of the
\* user returns DiscordApi or Http (502) with its pending state deleted, no
\* link created and no InviteUser sent, and a callback that repeats its token
\* fails with the invalid-state error
UpstreamFailure ==
    [][/\ \A c \in Callbacks :
             (/\ cb[c].pc \in {"get_access_token", "get_user_info"}
              /\ cb'[c].pc = "done")
             => /\ cb'[c].result.kind \in {"DiscordApi", "Http"}
                /\ into_response(cb'[c].result) = 502
                /\ \A s \in oauth_states' : s.state_token # cb[c].state
                /\ consumed'[cb[c].state] = 1
                /\ cb[c].link_id = 0
                /\ cb[c].invites = 0
                /\ user_links' = user_links
                /\ telegram_queue' = telegram_queue
       /\ \A c \in Callbacks, token \in Tokens :
             (/\ consumed[token] = 1
              /\ get_oauth_state(c, token))
             => /\ cb'[c].pc = "done"
                /\ cb'[c].result = ForbiddenRequest(MsgInvalidState)
                /\ into_response(cb'[c].result) = 400
                /\ oauth_states' = oauth_states]_vars

\* one callback has failed upstream, and a callback that carried a consumed
\* token was refused afterwards
UpstreamFailureWitness ==
    \E c, d \in Callbacks :
        /\ cb[c].pc = "done"
        /\ cb[c].result.kind \in {"DiscordApi", "Http"}
        /\ cb[d].pc = "done"
        /\ cb[d].result = ForbiddenRequest(MsgInvalidState)
        /\ cb[d].state \in Tokens
        /\ consumed[cb[d].state] = 1
        /\ user_links = {}
        /\ telegram_queue = <<>>

\* C9: a callback whose discord_id is linked to another telegram_id when it
\* checks fails with BadRequest (already linked), inserts and modifies no row
\* of user_links and sends no InviteUser
LinkedDiscordConflict ==
    [][\A c \in Callbacks :
          (/\ can_link_accounts(c)
           /\ \E l \in user_links :
                 /\ l.discord_id = cb[c].discord_id
                 /\ l.telegram_id # cb[c].telegram_id)
          => /\ cb'[c].pc = "done"
             /\ cb'[c].result = BadRequest(MsgDiscordLinked)
             /\ into_response(cb'[c].result) = 400
             /\ cb[c].link_id = 0
             /\ cb[c].invites = 0
             /\ user_links' = user_links
             /\ telegram_queue' = telegram_queue]_vars

\* a callback was refused as already linked: the one link and the one
\* InviteUser are those of an earlier callback
LinkedDiscordConflictWitness ==
    /\ \E c \in Callbacks :
          cb[c].pc = "done" /\ cb[c].result = BadRequest(MsgDiscordLinked)
    /\ Cardinality(user_links) = 1
    /\ Len(telegram_queue) = 1
    /\ \A c \in Callbacks : cb[c].pc \in {"idle", "done"}

\* C10: a callback whose insert violates the uniqueness of telegram_id, with
\* its discord_id not linked and no other callback ever in flight, fails with
\* a 400 error and never with a 500
InsertConflictIsClean ==
    [][\A c \in Callbacks :
          (/\ cb[c].pc = "create_link"
           /\ \A d \in Callbacks \ {c} : cb[d].pc = "idle"
           /\ \A l \in user_links : l.discord_id # cb[c].discord_id
           /\ \E l \in user_links : l.telegram_id = cb[c].telegram_id
           /\ cb'[c].pc = "done")
          => /\ into_response(cb'[c].result) = 400
             /\ cb'[c].result.kind # "Database"]_vars

\* C11, as the specification states it: a user whom a check of a cycle has
\* found with an allowed role is not removed by that cycle, no RemoveUser is
\* sent for the user and the link is kept
QualifiedNeverRemoved ==
    \A r \in Runners : cron[r].kept \cap cron[r].sent = {}

\* a check has kept a user for one guild and the same cycle has sent
\* RemoveUser for the user on account of another guild
QualifiedRemovedWitness ==
    \E r \in Runners : cron[r].kept \cap cron[r].tx_deleted # {}

\* C12: a cycle sends at most one RemoveUser for a user, over all its guilds,
\* and when the cycle commits no row it has sent RemoveUser for is left
RemovedOncePerCycle ==
    [][/\ \A r \in Runners : \A u \in cron[r].users, fetched \in MemberFetches :
             (verify_user(r, u, fetched) /\ telegram_queue' # telegram_queue)
             => /\ u.id \notin cron[r].sent
                /\ telegram_queue' =
                      Append(telegram_queue, RemoveUser(u.telegram_id, cron[r].guild))
       /\ \A r \in Runners :
             cycle_commit(r)
             => \A l \in user_links' : l.id \notin cron[r].sent]_vars

\* a cycle over two guilds with allowed roles has committed: the two links
\* are gone and the channel holds one RemoveUser for each user
RemovedOncePerCycleWitness ==
    /\ \A r \in Runners : cron[r].pc = "idle"
    /\ \A g \in Guilds : allowed_roles[g] # {}
    /\ user_links = {}
    /\ Len(telegram_queue) = 2
    /\ telegram_queue[1].id # telegram_queue[2].id

\* C13: the DELETE of a row runs only after the cycle has sent RemoveUser for
\* its user and the send succeeded, and a row leaves the table only at the
\* commit of a cycle that has sent RemoveUser for it; a crash removes no row
EnqueueBeforeDelete ==
    [][/\ \A r \in Runners :
             (delete_user_link(r) \/ delete_user_link_failed(r))
             => /\ cron[r].user.id \in cron[r].sent
                /\ \E i \in 1..Len(telegram_queue) :
                      telegram_queue[i] =
                          RemoveUser(cron[r].user.telegram_id, cron[r].guild)
       /\ \A r \in Runners : cron'[r].tx_deleted \subseteq cron'[r].sent
       /\ \A l \in user_links \ user_links' :
             \E r \in Runners : cycle_commit(r) /\ l.id \in cron[r].sent
       /\ Crash => user_links' = user_links]_vars

\* a cycle has sent RemoveUser for a user and has deleted the row in its
\* transaction, which is still open
EnqueueBeforeDeleteWitness ==
    \E r \in Runners :
        /\ cron[r].pc # "idle"
        /\ cron[r].tx_deleted # {}
        /\ cron[r].tx_deleted = cron[r].sent
        /\ Len(telegram_queue) = Cardinality(cron[r].sent)

\* C14: when the send of RemoveUser fails for a user without an allowed role,
\* the user is counted as failed, no DELETE runs for the user, the loop goes
\* on with the other users, and the commit of the cycle keeps the row
SendFailureKeepsLink ==
    [][/\ \A r \in Runners : \A u \in cron[r].users, fetched \in MemberFetches :
             (/\ verify_user(r, u, fetched)
              /\ fetched.ok
              /\ fetched.roles \cap cron[r].roles = {}
              /\ ~receiver_open)
             => /\ cron'[r].stats.users_failed = cron[r].stats.users_failed + 1
                /\ cron'[r].stats.users_removed = cron[r].stats.users_removed
                /\ cron'[r].pc = IF cron[r].users = {u} THEN "guild" ELSE "user"
                /\ cron'[r].users = cron[r].users \ {u}
                /\ cron'[r].tx_deleted = cron[r].tx_deleted
                /\ cron'[r].sent = cron[r].sent
                /\ cron'[r].tx_failed = cron[r].tx_failed
                /\ telegram_queue' = telegram_queue
                /\ u \in user_links'
       /\ \A r \in Runners :
             cycle_commit(r)
             => \A l \in user_links : l.id \notin cron[r].sent => l \in user_links']_vars

\* the send failed for both users of a guild: both are counted as failed,
\* none is removed and both rows are in the table
SendFailureKeepsLinkWitness ==
    \E r \in Runners :
        /\ ~receiver_open
        /\ cron[r].pc = "guild"
        /\ cron[r].stats.users_checked = 2
        /\ cron[r].stats.users_failed = 2
        /\ cron[r].kept = {}
        /\ cron[r].sent = {}
        /\ Cardinality(user_links) = 2

\* C15: when the fetch of the member of a user fails, the row of the user is
\* kept, no RemoveUser is sent, users_failed grows by one and the loop goes on
\* with the remaining users of the guild and the remaining guilds
FetchFailureSkipsUser ==
    [][\A r \in Runners : \A u \in cron[r].users, fetched \in MemberFetches :
          (verify_user(r, u, fetched) /\ ~fetched.ok)
          => /\ user_links' = user_links
             /\ telegram_queue' = telegram_queue
             /\ cron'[r].stats.users_failed = cron[r].stats.users_failed + 1
             /\ cron'[r].stats.users_checked = cron[r].stats.users_checked + 1
             /\ cron'[r].stats.users_removed = cron[r].stats.users_removed
             /\ cron'[r].users = cron[r].users \ {u}
             /\ cron'[r].pc = IF cron[r].users = {u} THEN "guild" ELSE "user"
             /\ cron'[r].guilds = cron[r].guilds
             /\ cron'[r].tx_deleted = cron[r].tx_deleted
             /\ cron'[r].sent = cron[r].sent
             /\ cron'[r].tx_failed = cron[r].tx_failed]_vars

\* in one guild the fetch failed for one user and the other user was removed
FetchFailureSkipsUserWitness ==
    \E r \in Runners :
        /\ receiver_open
        /\ ~cron[r].tx_failed
        /\ cron[r].stats.users_checked = 2
        /\ cron[r].stats.users_failed = 1
        /\ cron[r].stats.users_removed = 1
        /\ Cardinality(cron[r].tx_deleted) = 1

\* C16: for a guild without allowed roles the cycle goes to the next guild
\* with no user to verify: no member is fetched, nothing is sent, nothing is
\* deleted and nothing is counted
GuildWithoutRolesSkipped ==
    [][\A r \in Runners : \A g \in cron[r].guilds :
          (verify_guild_user_roles(r, g) /\ allowed_roles[g] = {})
          => /\ cron'[r].pc = "guild"
             /\ cron'[r].users = {}
             /\ cron'[r].guilds = cron[r].guilds \ {g}
             /\ cron'[r].stats = cron[r].stats
             /\ cron'[r].sent = cron[r].sent
             /\ cron'[r].tx_deleted = cron[r].tx_deleted
             /\ telegram_queue' = telegram_queue
             /\ user_links' = user_links]_vars

\* a cycle has gone through its guilds, none of which has an allowed role,
\* with two links in the table and nothing checked
GuildWithoutRolesSkippedWitness ==
    \E r \in Runners :
        /\ cron[r].pc = "guild"
        /\ cron[r].guilds = {}
        /\ \A g \in Guilds : allowed_roles[g] = {}
        /\ Cardinality(user_links) = 2
        /\ cron[r].stats.users_checked = 0
        /\ telegram_queue = <<>>

\* C17: the consumer has at most one action in hand, it takes the oldest
\* action of the channel and only when the handler of the last one has
\* returned, and the actions handled, in hand and waiting are, in this
\* order, the actions in the order the producers sent them: a step sends
\* one more action or leaves that sequence as it is
HandledInOrder ==
    [][/\ Len(dispatcher'.handling) <= 1
       /\ \/ Submitted' = Submitted
          \/ \E a \in {InviteUser(t) : t \in TelegramIds}
                      \cup {RemoveUser(t, g) : t \in TelegramIds, g \in Guilds} :
                /\ Submitted' = Append(Submitted, a)
                /\ telegram_queue' = Append(telegram_queue, a)
       /\ recv => /\ dispatcher.handling = <<>>
                  /\ dispatcher'.handling = <<Head(telegram_queue)>>
                  /\ telegram_queue' = Tail(telegram_queue)
       /\ \A i \in 1..Len(dispatcher.handled) :
             /\ i <= Len(dispatcher'.handled)
             /\ dispatcher'.handled[i] = dispatcher.handled[i]]_vars

\* an InviteUser of a callback and a RemoveUser of a cycle were handled one
\* after the other while a third action was waiting in the channel
HandledInOrderWitness ==
    /\ Len(dispatcher.handled) = 2
    /\ dispatcher.handled[1].action.type # dispatcher.handled[2].action.type
    /\ dispatcher.handling = <<>>
    /\ telegram_queue # <<>>

\* C18: a handler that fails returns like one that succeeds: the consumer
\* stays alive, the action is recorded as handled once and is not put back
\* into the channel; and every action sent is eventually handled, whatever
\* the outcomes of the actions before it
FailedActionsNeverStop ==
    /\ [][\A ok \in BOOLEAN :
             handle(ok)
             => /\ dispatcher'.handled =
                      Append(dispatcher.handled,
                             [action |-> Head(dispatcher.handling), ok |-> ok])
                /\ dispatcher'.handling = <<>>
                /\ telegram_queue' = telegram_queue
                /\ receiver_open' = receiver_open
                /\ Submitted' = Submitted]_vars
    /\ \A i \in 1..MaxQueue :
          (Len(Submitted) >= i) ~> (Len(dispatcher.handled) >= i)

\* the first action handled has failed and a later one has been handled
FailedActionsNeverStopWitness ==
    /\ Len(dispatcher.handled) >= 2
    /\ ~dispatcher.handled[1].ok
    /\ dispatcher.handled[2].ok
    /\ telegram_queue = <<>>
    /\ dispatcher.handling = <<>>

\* C19, as the specification states it: a /cron request with the configured
\* secret sends exactly one Execute, any other /cron request fails with
\* ForbiddenRequest and sends nothing, and /checar_membros sends Execute
\* only for an admin
SecretAlwaysSendsExecute ==
    [][/\ \A secret \in Secrets :
             cron_start(secret)
             => IF secret = CronSecret
                THEN cron_trigger'.executes = cron_trigger.executes + 1
                ELSE /\ cron_trigger'.executes = cron_trigger.executes
                     /\ cron_trigger'.response.kind = "ForbiddenRequest"
       /\ \A ctx \in Contexts :
             (verify_members(ctx) /\ cron_trigger'.executes # cron_trigger.executes)
             => /\ ctx.guild \in DOMAIN allowed_roles
                /\ ctx.on_channel
                /\ ctx.member
                /\ ctx.roles \cap get_guild_admin_ids(ctx.guild) # {}]_vars

\* C19: Execute is added to the channel only by a /cron request with the
\* configured secret or by /checar_membros of a member with an admin role of
\* an allowed guild, in an allowed channel, one Execute per trigger and only
\* while the receiver is alive; a /cron request with another secret fails
\* with ForbiddenRequest and sends nothing; with the configured secret and
\* the receiver gone it fails with InternalError and sends nothing; and the
\* manual runner starts a cycle only by taking an Execute from the channel
AuthenticatedTrigger ==
    [][/\ cron_trigger'.executes > cron_trigger.executes
          => /\ cron_trigger'.executes = cron_trigger.executes + 1
             /\ cron_trigger.receiver_open
             /\ \/ cron_start(CronSecret)
                \/ \E ctx \in Contexts :
                      /\ verify_members(ctx)
                      /\ ctx.guild \in DOMAIN allowed_roles
                      /\ ctx.on_channel
                      /\ ctx.member
                      /\ ctx.roles \cap get_guild_admin_ids(ctx.guild) # {}
       /\ \A secret \in Secrets \ {CronSecret} :
             cron_start(secret)
             => /\ cron_trigger'.executes = cron_trigger.executes
                /\ cron_trigger'.response = ForbiddenRequest("invalid cron secret")
                /\ into_response(cron_trigger'.response) = 400
       /\ cron_start(CronSecret)
          => IF cron_trigger.receiver_open
             THEN /\ cron_trigger'.executes = cron_trigger.executes + 1
                  /\ cron_trigger'.response = Ok
             ELSE /\ cron_trigger'.executes = cron_trigger.executes
                  /\ cron_trigger'.response =
                        InternalError("failed start cron job manually")
                  /\ into_response(cron_trigger'.response) = 500
       /\ cycle_begin("manual")
          => /\ cron_trigger.executes > 0
             /\ cron_trigger'.executes = cron_trigger.executes - 1]_vars

\* a manual cycle runs on the Execute of an authenticated trigger and the
\* /cron request after it, with a wrong secret, was refused and sent nothing
AuthenticatedTriggerWitness ==
    /\ cron["manual"].pc = "user"
    /\ cron_trigger.executes = 0
    /\ cron_trigger.response = ForbiddenRequest("invalid cron secret")

\* C20: every error a start or callback request has returned renders with
\* status 400, 502 or 500: 400 for an invalid telegram_id, an invalid or
\* expired state, a linked Telegram account and a linked Discord account, 502
\* exactly for DiscordApi and Http, 500 exactly for Database and
\* InternalError; and no variant of ApiError renders with another status
ErrorStatusFixed ==
    /\ \A res \in {start.result} \cup {cb[c].result : c \in Callbacks} :
          res.kind \notin {"none", "Ok"}
          => /\ into_response(res) \in {400, 502, 500}
             /\ res.message \in {MsgInvalidTelegramId, MsgTelegramLinked,
                                 MsgInvalidState, MsgDiscordLinked}
                   => into_response(res) = 400
             /\ res.kind \in {"DiscordApi", "Http"} <=> into_response(res) = 502
             /\ res.kind \in {"Database", "InternalError"} <=> into_response(res) = 500
             /\ res.kind \in {"ForbiddenRequest", "BadRequest"} <=> into_response(res) = 400
    /\ \A e \in {DiscordApi("m"), Http("m"), ForbiddenRequest("m"), Database("m"),
                 InternalError("m"), BadRequest("m")} :
          into_response(e) \in {400, 502, 500}

\* a start request was refused with 400, one callback failed with 502 and
\* the other with 500
ErrorStatusFixedWitness ==
    /\ start.result.kind \in {"ForbiddenRequest", "BadRequest"}
    /\ \E c, d \in Callbacks :
          /\ cb[c].result.kind \in {"DiscordApi", "Http"}
          /\ cb[d].result.kind = "Database"

StampedAfterEnqueue ==
    \A l \in user_links :
        l.added_to_group_at
        => \E i \in 1..Len(telegram_queue) :
              telegram_queue[i] = InviteUser(l.telegram_id)

\* the UPDATE of a callback whose send failed has stamped the row, and the
\* callback has not returned a second time
StampedWithoutInviteWitness ==
    /\ telegram_queue = <<>>
    /\ \E l \in user_links : l.added_to_group_at
    /\ \A l \in user_links : l.added_to_group_at
    /\ Cardinality(user_links) = 2

\* C23, as the specification states it: a duplicate add of a channel to a
\* guild fails with the message and changes nothing; any other add returns a
\* channel of that guild, puts the id on the list of that guild and leaves the
\* rows of every other guild as they were
ChannelAddStaysInGuild ==
    [][\A id \in ChannelIds, name \in ChannelNames, g \in Guilds :
          add_channel_inner(id, name, g)
          => IF \E row \in permissions.channels :
                   row.channel_id = id /\ row.guild_id = g
             THEN /\ permissions'.reply = PermissionError(MsgChannelExists)
                  /\ permissions'.channels = permissions.channels
             ELSE /\ permissions'.reply.kind = "Ok"
                  /\ permissions'.reply.channel.guild_id = g
                  /\ \E row \in get_guild_channels(permissions'.channels, g) :
                        row.channel_id = id
                  /\ \A h \in Guilds \ {g} :
                        get_guild_channels(permissions'.channels, h)
                            = get_guild_channels(permissions.channels, h)]_vars

\* an add to one guild has answered Ok with the row of another guild: the
\* id counts as added to the first guild and is not on its list
ChannelOfOtherGuildWitness ==
    \E g \in Guilds, id \in ChannelIds :
        /\ <<g, id>> \in permissions.added_channels
        /\ \A row \in get_guild_channels(permissions.channels, g) :
              row.channel_id # id
        /\ \E row \in permissions.channels :
              /\ row.channel_id = id
              /\ row.guild_id # g
              /\ permissions.reply = OkChannel(row)

\* C24: add_role_inner for a guild succeeds exactly when no row of the guild
\* has the role id; the new role is then listed for that guild, among the
\* admin roles or among the others as the flag says, and the lists of every
\* other guild stay as they were; a duplicate fails with the message and
\* changes no list
RoleAddedOncePerGuild ==
    [][\A role_id \in RoleIds, admin \in BOOLEAN, g \in Guilds :
          add_role_inner(role_id, "cargo", admin, g)
          => IF \E row \in permissions.roles :
                   row.role_id = role_id /\ row.guild_id = g
             THEN /\ permissions'.reply = InvalidRoleError(MsgRoleExists)
                  /\ permissions'.roles = permissions.roles
             ELSE LET new == AllowedRole(role_id, "cargo", admin, g)
                      old == list_roles_inner(permissions.roles, g)
                      now_listed == list_roles_inner(permissions'.roles, g)
                  IN  /\ permissions'.reply = OkRole(new)
                      /\ now_listed.admin_roles
                            = old.admin_roles \cup (IF admin THEN {new} ELSE {})
                      /\ now_listed.non_admin_roles
                            = old.non_admin_roles \cup (IF admin THEN {} ELSE {new})
                      /\ \A h \in Guilds \ {g} :
                            list_roles_inner(permissions'.roles, h)
                                = list_roles_inner(permissions.roles, h)]_vars

\* a role id registered as an admin role of one guild has been added as a
\* plain role of the other guild
RoleAddedOncePerGuildWitness ==
    /\ permissions.reply = OkRole(AllowedRole(10, "cargo", FALSE, 2))
    /\ list_roles_inner(permissions.roles, 1).admin_roles
          = {AllowedRole(10, "cargo", TRUE, 1)}
    /\ list_roles_inner(permissions.roles, 2).non_admin_roles
          = {AllowedRole(10, "cargo", FALSE, 2)}
    /\ list_roles_inner(permissions.roles, 2).admin_roles = {}

\* C25: a delete of a role or channel id that has no row under the guild,
\* whether it is registered nowhere or under another guild only, fails with
\* the not-found message and changes no row; a delete of an id registered
\* under the guild removes the row of that guild and no other row
DeleteOnlyInGuild ==
    [][\A g \in Guilds :
          /\ \A id \in RoleIdParams :
                (del_role_inner(id, g) /\ parse_i64(id).ok)
                => LET mine == {row \in permissions.roles :
                                   /\ row.role_id = parse_i64(id).value
                                   /\ row.guild_id = g}
                   IN  IF mine = {}
                       THEN /\ permissions'.reply = PermissionError(MsgRoleNotFound)
                            /\ permissions'.roles = permissions.roles
                       ELSE /\ permissions'.reply = OkId(parse_i64(id).value)
                            /\ permissions'.roles = permissions.roles \ mine
          /\ \A id \in ChannelIdParams :
                (del_channel_inner(id, g) /\ parse_i64(id).ok)
                => LET mine == {row \in permissions.channels :
                                   /\ row.channel_id = parse_i64(id).value
                                   /\ row.guild_id = g}
                   IN  IF mine = {}
                       THEN /\ permissions'.reply
                                  = PermissionError(MsgChannelNotFound)
                            /\ permissions'.channels = permissions.channels
                       ELSE /\ permissions'.reply = OkId(parse_i64(id).value)
                            /\ permissions'.channels
                                  = permissions.channels \ mine]_vars

\* every channel id is registered under guild 1 and a delete has just answered
\* not found: it was a delete from guild 2 of an id of guild 1
DeleteOnlyInGuildWitness ==
    /\ permissions.reply = PermissionError(MsgChannelNotFound)
    /\ \A id \in ChannelIds :
          \E row \in permissions.channels : row.channel_id = id /\ row.guild_id = 1

\* C26, as the specification states it: when the scan of a cycle has gone
\* through every guild the transaction commits, whatever failed for single
\* users on the way, and the rows the cycle has deleted are gone for good
ScanCompleteCommits ==
    [][\A r \in Runners :
          /\ cron[r].pc = "guild"
          /\ cron[r].guilds = {}
          /\ cycle_commit(r) \/ cycle_rollback(r)
          => user_links' = {l \in user_links : l.id \notin cron[r].tx_deleted}]_vars

\* the scan is complete with one row deleted and one DELETE failed: the
\* transaction is failed and its COMMIT can only roll back
FailedDeleteLosesCommitWitness ==
    \E r \in Runners :
        /\ cron[r].pc = "guild"
        /\ cron[r].guilds = {}
        /\ cron[r].tx_failed
        /\ cron[r].tx_deleted # {}
        /\ cron[r].stats.users_removed = 1
        /\ cron[r].stats.users_failed = 1

\* C27: when a cycle ends with an error after it has deleted rows, the
\* rollback brings every one of those rows back while the RemoveUser actions
\* the cycle has sent stay where they are, in the channel or with the
\* consumer, so the next cycle finds the same users again
AbortKeepsRemoves ==
    [][\A r \in Runners :
          (guild_read_failed(r) \/ cycle_rollback(r))
          => /\ user_links' = user_links
             /\ telegram_queue' = telegram_queue
             /\ dispatcher' = dispatcher
             /\ cron'[r].pc = "idle"
             /\ \A id \in cron[r].tx_deleted :
                   \E l \in user_links' :
                      l.id = id /\ l.id \notin cron'[r].tx_deleted]_vars

\* the consumer has handled two RemoveUser actions for user 1 in guild 1 and
\* the row of the user is gone: the first cycle was rolled back after its
\* DELETE, the next one has removed the user again and committed
AbortKeepsRemovesWitness ==
    /\ \E i, j \in 1..Len(dispatcher.handled) :
          /\ i < j
          /\ dispatcher.handled[i].action = RemoveUser(1, 1)
          /\ dispatcher.handled[j].action = RemoveUser(1, 1)
    /\ \A l \in user_links : l.id # 1
    /\ cron["timer"].pc = "idle"

\* C28, as the specification states it: at any time at most one verification
\* cycle is in progress
OneCycleAtATime ==
    \A r1, r2 \in Runners :
        (cron[r1].pc # "idle" /\ cron[r2].pc # "idle") => r1 = r2

\* a timer cycle and a manual cycle are both in progress and each has sent
\* RemoveUser for the same link: the channel holds two actions for it
OverlappingCyclesWitness ==
    /\ cron["timer"].pc # "idle"
    /\ cron["manual"].pc # "idle"
    /\ cron["timer"].sent \cap cron["manual"].sent # {}
    /\ \E i, j \in 1..Len(telegram_queue) :
          i < j /\ telegram_queue[i] = telegram_queue[j]

\* C29: the runner takes the Execute signals one by one: a signal leaves the
\* channel only when the idle runner receives it, and then it either starts
\* one manual cycle or is dropped because no connection could be acquired;
\* signals are never merged and no cycle starts while another manual cycle
\* runs; and as long as signals keep arriving the runner keeps receiving
\* them, so no signal waits forever
ExecuteRunsOneCycle ==
    /\ [][/\ cron_trigger'.executes < cron_trigger.executes
             => /\ cron_trigger'.executes = cron_trigger.executes - 1
                /\ cron["manual"].pc = "idle"
                /\ cycle_begin("manual") \/ manual_acquire_failed
          /\ cycle_begin("manual")
             => /\ cron_trigger'.executes = cron_trigger.executes - 1
                /\ cron'["manual"].pc = "guild"
          /\ (cron["manual"].pc = "idle" /\ cron'["manual"].pc # "idle")
             => cron_trigger'.executes = cron_trigger.executes - 1]_vars
    /\ \/ <>[](cron_trigger.executes = 0)
       \/ []<><<cycle_begin("manual") \/ manual_acquire_failed>>_vars

\* a second Execute waits in the channel while the manual cycle started by
\* the first one is in progress
ExecuteRunsOneCycleWitness ==
    /\ cron["manual"].pc # "idle"
    /\ cron_trigger.executes = 1
    /\ cron_trigger.response = Ok
    /\ cron["manual"].stats.users_checked > 0

\* C30, as the specification states it: in the audit of a guild every turn of
\* the loop that leaves users to query ends with the sleep of api_delay_ms,
\* whatever the outcome for its user, and the turn of the last user ends
\* without it
DelayBetweenQueries ==
    [][\A r \in Runners :
          /\ api_delay_ms > 0
          /\ cron[r].pc \in {"user", "delete"}
          /\ cron'[r].pc \in {"user", "guild"}
          => (cron'[r].slept <=> cron'[r].pc = "user")]_vars

\* the first user of the cycle has been found qualified, another user is
\* still to be queried and the loop has gone on without the sleep
QualifiedUserNoDelayWitness ==
    \E r \in Runners :
        /\ cron[r].pc = "user"
        /\ cron[r].users # {}
        /\ cron[r].stats.users_checked = 1
        /\ cron[r].kept # {}
        /\ ~cron[r].slept

\* C31, as the specification states it: a callback that returns an error
\* after its INSERT leaves neither the link it has created in the table nor
\* the InviteUser it has sent in the channel
CallbackAllOrNothing ==
    [][\A c \in Callbacks :
          (mark_added(c) /\ cb'[c].result # Ok)
          => /\ \A l \in user_links' : l.id # cb[c].link_id
             /\ \A i \in 1..Len(telegram_queue') :
                   telegram_queue'[i] # InviteUser(cb[c].telegram_id)]_vars

\* no callback is in progress, one has returned a database error, and the
\* link it has inserted is in the table, not stamped, with its InviteUser
\* waiting in the channel
FailedCallbackLeavesLinkWitness ==
    /\ \A c \in Callbacks : cb[c].pc \in {"idle", "done"}
    /\ \E c \in Callbacks : cb[c].pc = "done" /\ cb[c].result = Database("io")
    /\ \E l \in user_links :
          /\ ~l.added_to_group_at
          /\ \E i \in 1..Len(telegram_queue) :
                telegram_queue[i] = InviteUser(l.telegram_id)

\* C32, as the specification states it: the group_id of every RemoveUser the
\* verifier sends is the chat id of the Telegram group of the guild under
\* audit, not the id of the Discord guild
RemoveCarriesTelegramGroup ==
    [][\A r \in Runners, u \in user_links, fetched \in MemberFetches :
          (verify_user(r, u, fetched) /\ telegram_queue' # telegram_queue)
          => telegram_queue'[Len(telegram_queue')] =
                [type |-> "RemoveUser", id |-> u.telegram_id,
                 group_id |-> telegram_group_id(cron[r].guild)]]_vars

\* a RemoveUser waits in the channel with the id of a Discord guild as the
\* chat to ban the user from
RemoveCarriesGuildIdWitness ==
    \E i \in 1..Len(telegram_queue) :
        /\ telegram_queue[i].type = "RemoveUser"
        /\ telegram_queue[i].group_id \in Guilds
        /\ \A g \in Guilds : telegram_queue[i].group_id # telegram_group_id(g)

\* C33: the handler of a RemoveUser first asks for the ban of the user in the
\* group of the action; it asks for the unban of the same pair only when the
\* ban has succeeded, and at most once; whatever the outcome, the action is
\* done, nothing goes back into the channel and the consumer is free for the
\* next action
RemoveBansThenUnbans ==
    [][\A ok \in BOOLEAN :
          (handle(ok) /\ Head(dispatcher.handling).type = "RemoveUser")
          => LET action == Head(dispatcher.handling)
                 run == dispatcher'.calls
             IN  /\ Len(run) \in {1, 2}
                 /\ run[1].method = "banChatMember"
                 /\ run[1].chat_id = action.group_id
                 /\ run[1].user_id = action.id
                 /\ Len(run) = 2 <=> run[1].ok
                 /\ Len(run) = 2
                    => /\ run[2].method = "unbanChatMember"
                       /\ run[2].chat_id = action.group_id
                       /\ run[2].user_id = action.id
                 /\ ok <=> (Len(run) = 2 /\ run[2].ok)
                 /\ dispatcher'.handling = <<>>
                 /\ telegram_queue' = telegram_queue]_vars

\* the ban of the last RemoveUser has succeeded and its unban has failed: the
\* user stays banned, and the consumer waits for the next action
RemoveBansThenUnbansWitness ==
    /\ Len(dispatcher.calls) = 2
    /\ dispatcher.calls[1].method = "banChatMember"
    /\ dispatcher.calls[1].ok
    /\ dispatcher.calls[2].method = "unbanChatMember"
    /\ ~dispatcher.calls[2].ok
    /\ dispatcher.handling = <<>>
    /\ ~dispatcher.handled[Len(dispatcher.handled)].ok

\* C34: the handler of an InviteUser first asks for an invite link of the
\* group of the action; only when the link was created it sends one message,
\* to the user of the action, with that link; without a link it sends nothing
InviteLinkBeforeMessage ==
    [][\A ok \in BOOLEAN :
          (handle(ok) /\ Head(dispatcher.handling).type = "InviteUser")
          => LET action == Head(dispatcher.handling)
                 run == dispatcher'.calls
             IN  /\ Len(run) \in {1, 2}
                 /\ run[1].method = "createChatInviteLink"
                 /\ run[1].chat_id = action.group_id
                 /\ Len(run) = 2 <=> run[1].ok
                 /\ Len(run) = 2
                    => /\ run[2].method = "sendMessage"
                       /\ run[2].chat_id = action.id
                       /\ run[2].message = make_invite_message(invite_link(run[1]))
                 /\ ok <=> (Len(run) = 2 /\ run[2].ok)]_vars

\* the last InviteUser was handled with a link created and the message sent
InviteLinkBeforeMessageWitness ==
    /\ Len(dispatcher.calls) = 2
    /\ dispatcher.calls[1].method = "createChatInviteLink"
    /\ dispatcher.calls[2].method = "sendMessage"
    /\ dispatcher.calls[2].ok
    /\ dispatcher.handled[Len(dispatcher.handled)].action.type = "InviteUser"
    /\ dispatcher.handled[Len(dispatcher.handled)].ok

\* C35, as the specification states it: every invite link the consumer asks
\* for is limited to one join
InviteLinkSingleUse ==
    \A i \in 1..Len(dispatcher.calls) :
        dispatcher.calls[i].method = "createChatInviteLink"
        => dispatcher.calls[i].member_limit = 1

\* a message with an invite link that has no limit of joins was delivered
UnlimitedInviteLinkWitness ==
    \E i \in 1..Len(dispatcher.calls) :
        /\ dispatcher.calls[i].method = "sendMessage"
        /\ dispatcher.calls[i].ok
        /\ dispatcher.calls[i].message.link.member_limit = 0

----------------------------------------------------------------------------
(* The body of an error response (src/src/api/error.rs).                   *)

\* Display of ApiError: the text of the variant's #[display] attribute, as
\* its fixed part and the message it interpolates
to_string(e) ==
    CASE e.kind = "DiscordApi" -> <<"Discord API error: ", e.message>>
      [] e.kind = "Http" -> <<"HTTP request failed: ", e.message>>
      [] e.kind = "ForbiddenRequest" -> <<"Forbidden: ", e.message>>
      [] e.kind = "Database" -> <<e.message>>
      [] e.kind = "InternalError" -> <<"Internal server error: ", e.message>>
      [] e.kind = "BadRequest" -> <<"Bad request: ", e.message>>

\* the error_message into_response chooses for the page
error_message(e) ==
    CASE e.kind = "DiscordApi" -> to_string(e)
      [] e.kind = "Http" -> <<"External service unavailable">>
      [] e.kind = "Database" -> <<"Database error occurred">>
      [] e.kind = "ForbiddenRequest" -> to_string(e)
      [] e.kind = "BadRequest" -> to_string(e)
      [] e.kind = "InternalError" -> to_string(e)

\* the page around the message
oauth_error_page(message) == [title |-> "Error", message |-> message]

\* the body of the response an error renders as
response_body(e) == oauth_error_page(error_message(e))

\* C36: two finished callbacks that failed with the same kind of upstream
\* or storage error (DiscordApi, Http, Database) are answered with the same
\* response body, whatever the messages inside the two errors
GenericFailureBody ==
    \A c1, c2 \in Callbacks :
        (/\ cb[c1].pc = "done"
         /\ cb[c2].pc = "done"
         /\ cb[c1].result.kind \in {"DiscordApi", "Http", "Database"}
         /\ cb[c1].result.kind = cb[c2].result.kind)
        => response_body(cb[c1].result) = response_body(cb[c2].result)

\* two callbacks failed with DiscordApi, one in the token exchange and one
\* in the user info request, and their pages show the two inner messages
DiscordApiMessageShownWitness ==
    \E c1, c2 \in Callbacks :
        /\ cb[c1].pc = "done"
        /\ cb[c2].pc = "done"
        /\ cb[c1].result = DiscordApi("Token exchange failed")
        /\ cb[c2].result = DiscordApi("User info request failed")
        /\ response_body(cb[c1].result).message[2] = "Token exchange failed"
        /\ response_body(cb[c2].result).message[2] = "User info request failed"
        /\ response_body(cb[c1].result) # response_body(cb[c2].result)

\* C37: the statistics of a cycle count every audit once. Always
\* users_removed + users_failed <= users_checked, and users_checked is the
\* number of audits that kept the user plus users_removed plus users_failed
\* (plus the one audit whose DELETE is still to run); the audit of a user
\* (the step of verify_users_in_guild a runner takes from a user) adds one
\* to users_checked and, in its fetch, its send or its DELETE (the step the
\* runner takes from the delete), one to at most one of users_removed and
\* users_failed; no other step of a running cycle touches the statistics
StatsPartitionAudits ==
    /\ [](\A r \in Runners :
            /\ cron[r].stats.users_removed + cron[r].stats.users_failed
                  <= cron[r].stats.users_checked
            /\ cron[r].stats.users_checked =
                  cron[r].users_kept + cron[r].stats.users_removed
                     + cron[r].stats.users_failed
                     + (IF cron[r].pc = "delete" THEN 1 ELSE 0))
    /\ [][\A r \in Runners :
            /\ (cron[r].pc = "user" /\ cron'[r] # cron[r] /\ cron'[r].pc # "idle")
                  => /\ cron'[r].stats.users_checked
                           = cron[r].stats.users_checked + 1
                     /\ cron'[r].stats.users_removed = cron[r].stats.users_removed
                     /\ cron'[r].stats.users_failed - cron[r].stats.users_failed
                           \in {0, 1}
                     /\ cron'[r].stats.users_failed # cron[r].stats.users_failed
                           => /\ cron'[r].pc # "delete"
                              /\ cron'[r].users_kept = cron[r].users_kept
            /\ (cron[r].pc = "delete" /\ cron'[r] # cron[r] /\ cron'[r].pc # "idle")
                  => /\ cron'[r].stats.users_checked = cron[r].stats.users_checked
                     /\ cron'[r].users_kept = cron[r].users_kept
                     /\ \/ /\ cron'[r].stats.users_removed
                                 = cron[r].stats.users_removed + 1
                           /\ cron'[r].stats.users_failed
                                 = cron[r].stats.users_failed
                        \/ /\ cron'[r].stats.users_removed
                                 = cron[r].stats.users_removed
                           /\ cron'[r].stats.users_failed
                                 = cron[r].stats.users_failed + 1
            /\ (cron[r].pc \notin {"user", "delete"} /\ cron'[r].pc # "idle")
                  => cron'[r].stats = cron[r].stats]_vars

\* the guilds of a cycle are done: of three audits one kept the user, one
\* removed the user and one failed
StatsPartitionAuditsWitness ==
    \E r \in Runners :
        /\ cron[r].pc = "guild"
        /\ cron[r].guilds = {}
        /\ cron[r].stats.users_checked = 3
        /\ cron[r].users_kept = 1
        /\ cron[r].stats.users_removed = 1
        /\ cron[r].stats.users_failed = 1

\* C38 as stated: with several guilds that have allowed roles, every audit
\* whose fetch returns the member without an allowed role of the guild has
\* RemoveUser sent for the user, and no link RemoveUser was sent for is in the
\* table after the commit of the cycle, so that a link that survives was
\* found without an allowed role by no audit
SurvivorsQualifiedEverywhere ==
    [][\A r \in Runners :
          Cardinality({g \in DOMAIN allowed_roles : allowed_roles[g] # {}}) > 1
          =>
          /\ \A u \in cron[r].users :
                \A fetched \in {f \in MemberFetches :
                       f.ok /\ f.roles \cap cron[r].roles = {}} :
                    verify_user(r, u, fetched) => u.id \in cron'[r].sent
          /\ cycle_commit(r)
                => \A l \in user_links' : l.id \notin cron[r].sent]_vars

\* C38: a cycle goes through every allowed guild, and for every guild with
\* allowed roles it audits every link its transaction has not deleted, all of
\* them before the next guild. An audit whose fetch returns the member
\* without an allowed role of the guild sends RemoveUser and goes on to the
\* DELETE of the link, whatever an audit for another guild has found, unless
\* the channel is closed: then nothing is sent, the user is counted as failed
\* and the link stays. No link RemoveUser was sent for is in the table after
\* the commit of the cycle, and a cycle that ends otherwise deletes nothing
UnqualifiedInOneGuildRemoved ==
    /\ [](\A r \in Runners : cron[r].pc \in {"guild", "idle"} => cron[r].users = {})
    /\ [][\A r \in Runners :
            /\ cycle_begin(r) => cron'[r].guilds = DOMAIN allowed_roles
            /\ \A g \in cron[r].guilds :
                  (verify_guild_user_roles(r, g) /\ allowed_roles[g] # {})
                  => /\ cron'[r].users
                          = {l \in user_links : l.id \notin cron[r].tx_deleted}
                     /\ cron'[r].roles = allowed_roles[g] \/ cron'[r].users = {}
                     /\ cron'[r].guilds = cron[r].guilds \ {g}
            /\ \A u \in cron[r].users :
                  \A fetched \in {f \in MemberFetches :
                         f.ok /\ f.roles \cap cron[r].roles = {}} :
                      verify_user(r, u, fetched)
                      => IF receiver_open
                         THEN /\ u.id \in cron'[r].sent
                              /\ cron'[r].pc = "delete"
                              /\ cron'[r].user = u
                         ELSE /\ cron'[r].sent = cron[r].sent
                              /\ cron'[r].pc # "delete"
                              /\ cron'[r].tx_deleted = cron[r].tx_deleted
                              /\ cron'[r].stats.users_failed
                                    = cron[r].stats.users_failed + 1
            /\ cycle_commit(r)
                  => /\ cron[r].guilds = {}
                     /\ \A l \in user_links :
                           l.id \in cron[r].sent => l \notin user_links'
            /\ (cron[r].pc # "idle" /\ cron'[r].pc = "idle" /\ ~cycle_commit(r))
                  => user_links' = user_links]_vars

\* the guilds of a cycle are done and its transaction is about to commit: a
\* user with an allowed role in one guild has been deleted for another guild,
\* and with the channel closed the other user, whom no audit has kept, has
\* been counted as failed and the link stays
RemovedDespiteOtherGuildWitness ==
    \E r \in Runners :
        /\ cron[r].pc = "guild"
        /\ cron[r].guilds = {}
        /\ ~cron[r].tx_failed
        /\ ~receiver_open
        /\ cron[r].kept \cap cron[r].sent \cap cron[r].tx_deleted # {}
        /\ \E l \in user_links :
              /\ l.id \notin cron[r].kept \cup cron[r].sent
              /\ cron[r].stats.users_failed > 0

\* C39: a step of a verification cycle creates no row of user_links and
\* changes no field of one (every row of the table after the step is a row
\* of the table before it, added_to_group_at and last_subscription_check
\* included), leaves the pending OAuth states as they are, and removes a row
\* only at the commit of a cycle that found the user without an allowed role
\* and sent RemoveUser for them
CycleOnlyDeletesLinks ==
    [][cron' # cron
       => /\ user_links' \subseteq user_links
          /\ next_link_id' = next_link_id
          /\ oauth_states' = oauth_states
          /\ next_token' = next_token
          /\ \A l \in user_links \ user_links' :
                \E r \in Runners :
                    /\ cycle_commit(r)
                    /\ l.id \in cron[r].sent
                    /\ l.id \in cron[r].tx_deleted]_vars

\* a cycle is about to commit the deletion of one link and keeps another,
\* which the callback has created and not yet marked as added to the group
CycleOnlyDeletesLinksWitness ==
    \E r \in Runners :
        /\ cron[r].pc = "guild"
        /\ cron[r].guilds = {}
        /\ cron[r].tx_deleted # {}
        /\ \E l \in user_links :
              /\ l.id \in cron[r].kept \ cron[r].tx_deleted
              /\ ~l.added_to_group_at

====
